---------------------------- MODULE Spec2Model ----------------------------
(***************************************************************************)
(* A model of the pcs golden-collision / claw search library:              *)
(*   - the problem wrappers and the search front ends of include/mitm.hpp  *)
(*     (specification SpecWrap),                                           *)
(*   - the distinguished-point walker of mitm_sequential.hpp               *)
(*     (specification SpecDP),                                             *)
(*   - the sequential engine collision() of mitm_sequential.hpp            *)
(*     (specification SpecSeq).                                            *)
(*                                                                         *)
(* Machine words.  The wrappers compute on u64 values with xor, shifts,    *)
(* and one multiplication, and claw_search computes one mask in int.  A    *)
(* u64 value is modelled as the set of its one-bits, a subset of 0..63, so *)
(* that the widths are the real ones (64 for u64, 32 for int).             *)
(***************************************************************************)
EXTENDS Integers, Naturals, Sequences, FiniteSets, TLC

VARIABLES
    \* ---- SpecWrap: include/mitm.hpp
    wrapper,    \* which wrapper class was constructed: "collision", "equal", "larger"
    pb,         \* the user's problem: [n, m, f, g, golden]
    shiftUB,    \* what the build makes of an int shift by >= 32 bits
    n_eval,     \* wrapper.n_eval
    h_mixf,     \* mixf calls since Pb.n_eval = 0 of the sender, -1: none yet
    ret,        \* what the last call into the wrapper / front end did
    \* ---- SpecDP, SpecSeq: mitm_sequential.hpp
    Pb,             \* the problem: [f, g, f_eq_g, emb], emb the current embedding
    pre_inp0,       \* the chain's starting point
    buf0,           \* inp0_or_out0_buffer0, inp0_or_out0_buffer1
    inp0_pt,        \* which of the two buffers inp0_pt points to
    out0_pt,        \* which of the two buffers out0_pt points to
    chain_length0,
    difficulty,
    gd_pc,          \* generate_dist_point: "idle", "loop" or "done"
    gd_i,           \* generate_dist_point's loop counter i
    found_dist,     \* generate_dist_point's return value
    cl_before,      \* chain_length0 when generate_dist_point was called
    \* ---- SpecSeq: collision() of mitm_sequential.hpp
    dict,           \* the dictionary's slots
    buf1,           \* inp1_or_out1_buffer0, inp1_or_out1_buffer1
    inp1_pt,
    out1_pt,
    chain_length1,
    is_collision_found,
    n_collisions,
    n_dist_points,
    collisions_container,
    pc,             \* where collision() is
    w_len0,         \* walk's inp0_chain_len
    w_len1,         \* walk's inp1_chain_len
    w_len,          \* walk's len
    w_i,            \* walk's lockstep counter i
    found_collision,\* walk's return value
    result,         \* the pair collision() returned
    \* ---- history of the call of walk / treat_collision in progress
    h_inp1,         \* *inp1_pt when walk was called
    h_container,    \* collisions_container when treat_collision was called
    h_attempts,      \* how many seeds the engine has drawn in this version
    h_version,       \* how many versions the engine has begun, counted up to 2
    \* ---- SpecDict: CompactDict of include/mpi_naive_isend.hpp
    A,              \* CompactDict::A, the slots [k, v]
    cd_pc,          \* "idle", or the loop the operation in progress is in
    cd_op,          \* the operation in progress: [name, key, value]
    cd_h,           \* the operation's slot index h
    cd_steps,       \* how many slots the operation has looked at
    cd_keys,        \* probe's output array keys[0..nkeys-1]
    cd_hist,        \* the completed insert calls: [key, value, slot] each
    \* ---- SpecSender: sender of include/mpi/pcs_sender.hpp
    sd_par,         \* params and Pb: [n_send, n_recv, n], mask = 2^n - 1
    bcasts,         \* the controller's broadcasts so far: [seed, stop] each
    sd_pc,          \* per local_rank: where the sender is
    sd_ep,          \* per local_rank: how many broadcasts it has received
    sd_j,           \* per local_rank: the loop variable j
    sd_ndp,         \* per local_rank: n_dp
    sd_starts,      \* per local_rank: the chain starts used in this version
    sd_push,        \* per local_rank: the last push3, [end, target]
    sd_busy,        \* per local_rank: did anything since the last broadcast
    sd_assign,      \* per local_rank: the last assignment received
    sd_buf,         \* per local_rank and receiver: sendbuf, the triples not sent
    sd_sent,        \* per local_rank: how many triples sendbuf has transmitted
    sd_routed,      \* per local_rank: how many push3 in this epoch
    sd_home,        \* per local_rank: [calls, assigns, reported] of this epoch
    \* ---- SpecNaive: naive_mpi_claw_search of include/mpi_naive_isend.hpp
    nv_par,         \* params and Pb: [n_send, n_recv, f, g, good]
    nv_phase,       \* phase: 0 fill, 1 probe, 2 returned
    nv_x,           \* per sender: the next x of its loop
    nv_chan,        \* per <<sender, receiver>>: the (x, z) sent, not received
    nv_dict,        \* per receiver: dict.A
    nv_result,      \* per receiver: result
    nv_hung,        \* per receiver: it is in a loop that never ends
    nv_ret,         \* what the search returned
    nv_ctr,         \* per receiver: ctr, [failure, found] of this phase
    nv_arr,         \* [s, r]: per sender and per receiver, it is at MPI_Barrier
    \* ---- SpecPart: the senders' ranges of naive_mpi_claw_search, as u64
    pt_par,         \* params and Pb: [n, n_send]
    pt_rank,        \* how many senders have computed their range
    pt_lo,          \* per sender that has: lo
    pt_hi,          \* per sender that has: hi
    \* ---- SpecKeys: one receiver of naive_mpi_claw_search and its keys buffer
    kb_par,         \* Pb: [n, f, g]
    kb_phase,       \* phase: 0 fill, 1 probe, 2 done
    kb_x,           \* the next x of the phase
    kb_dict,        \* dict.A
    kb_nkeys,       \* how many values the last probe wrote to keys
    kb_stop         \* "none", or why the receiver goes no further

wrapVars == <<wrapper, pb, shiftUB, n_eval, h_mixf, ret>>

dpVars == <<Pb, pre_inp0, buf0, inp0_pt, out0_pt, chain_length0, difficulty,
            gd_pc, gd_i, found_dist, cl_before>>

seqVars == <<dict, buf1, inp1_pt, out1_pt, chain_length1, is_collision_found,
             n_collisions, n_dist_points, collisions_container, pc,
             w_len0, w_len1, w_len, w_i, found_collision, result>>

histVars == <<h_inp1, h_container, h_attempts, h_version>>

cdVars == <<A, cd_pc, cd_op, cd_h, cd_steps, cd_keys, cd_hist>>

\* the variables of the components other than the wrappers and the
\* sequential engine
sdVars == <<sd_par, bcasts, sd_pc, sd_ep, sd_j, sd_ndp, sd_starts, sd_push,
            sd_busy, sd_assign, sd_buf, sd_sent, sd_routed, sd_home>>

nvVars == <<nv_par, nv_phase, nv_x, nv_chan, nv_dict, nv_result, nv_hung,
            nv_ret, nv_ctr, nv_arr>>

ptVars == <<pt_par, pt_rank, pt_lo, pt_hi>>

kbVars == <<kb_par, kb_phase, kb_x, kb_dict, kb_nkeys, kb_stop>>

extVars == <<cdVars, sdVars, nvVars, ptVars, kbVars>>

vars == <<wrapVars, dpVars, seqVars, histVars, extVars>>

(***************************************************************************)
(* Bounds and program constants                                            *)
(***************************************************************************)
U64Bits == 64
IntBits == 32
\* Problem widths n, m up to SmallBits are explored with their whole domain;
\* larger widths with the values whose one-bits are the lowest and the
\* highest bit of the width.
SmallBits == 2
\* n_eval is counted up to MaxEval calls; the constructors leave it with
\* any value (0..MaxEval here).
MaxEval == 2
\* The domain C of mitm_sequential.hpp has 2^CBits points.
CBits == 2
\* generate_dist_point is called with difficulty 0..MaxDifficulty.
MaxDifficulty == 1
\* The sequential engine, scaled down: dict.n_slots (a share of the memory
\* in the program), the difficulty (9 in the program) and the number of
\* collisions to collect (2^20 in the program).
NSlots == 1
SeqDifficulty == 1
NeededCollisions == 1
\* walk and treat_collision are called with chain lengths 0..MaxWalkLen.
MaxWalkLen == 3
\* The dictionary keeps a key truncated modulo KeyMod (a 32-bit prime in the
\* program).
KeyMod == 2

Widths == (1..SmallBits) \cup {IntBits - 1, IntBits, IntBits + 1}

Pos(k) == IF k <= SmallBits THEN 0..(k - 1) ELSE {0, k - 1}

\* the k-bit values explored
Vals(k) == SUBSET Pos(k)

(***************************************************************************)
(* u64 arithmetic on bit sets                                              *)
(***************************************************************************)
Xor(x, y) == (x \ y) \cup (y \ x)

And(x, y) == x \cap y

Shr(x, k) == {p - k : p \in {q \in x : q >= k}}

\* x < 2^k
Below(x, k) == \A p \in x : p < k

\* number of partial products in column c of x * y
Col(x, y, c) == Cardinality({j \in x : (c - j) \in y})

RECURSIVE Carry(_, _, _)
Carry(x, y, c) == IF c < 0 THEN 0 ELSE (Col(x, y, c) + Carry(x, y, c - 1)) \div 2

\* bit p (p < 64) of the u64 product x * y
MulBit(x, y, p) == (Col(x, y, p) + Carry(x, y, p - 1)) % 2


(***************************************************************************)
(* The user's problem (examples/mpi_double_speck64_demo.cpp)               *)
(***************************************************************************)
\* mask = (1ull << n) - 1, n < 64
Mask(n) == 0..(n - 1)

\* the families the user's f, g and is_good_pair are drawn from
FunFam(n) ==
    { [x \in Vals(n) |-> And(x, {0})],
      [x \in Vals(n) |-> Xor(x, {0})] }

GoldFam(n) ==
    { {p \in Vals(n) \X Vals(n) : p[1] # p[2]},
      {<<{0}, {}>>} }

\* f(k) and g(k): assert((k & mask) == k), then the function's value
UserF(k) ==
    LET ok == And(k, Mask(pb.n)) = k
    IN  [fn |-> "f", arg |-> k, ok |-> ok, val |-> IF ok THEN pb.f[k] ELSE {}]

UserG(k) ==
    LET ok == And(k, Mask(pb.n)) = k
    IN  [fn |-> "g", arg |-> k, ok |-> ok, val |-> IF ok THEN pb.g[k] ELSE {}]

is_good_pair(x, y) == <<x, y>> \in pb.golden

(***************************************************************************)
(* ConcreteCollisionProblem                                                *)
(***************************************************************************)
Collision_mix(i, x) == Xor(i, x)

Collision_mixf(i, x) == UserF(Collision_mix(i, x))

Collision_mix_good_pair(i, x0, x1) ==
    LET y0 == Collision_mix(i, x0)
        y1 == Collision_mix(i, x1)
    IN  [res |-> is_good_pair(y0, y1), swapped |-> FALSE, gp |-> {<<y0, y1>>},
         failed |-> "none"]

(***************************************************************************)
(* EqualSizeClawWrapper                                                    *)
(***************************************************************************)
Equal_choose(i, x) == MulBit(x, i \cup {0}, pb.m - 1) = 1

Equal_mix(i, x) == Xor(i, x)

\* mutant: the two branches exchanged
Equal_mixf_exchanged(i, x) ==
    LET y == Equal_mix(i, x)
    IN  IF Equal_choose(i, x) THEN UserG(y) ELSE UserF(y)

Equal_mixf(i, x) ==
    LET y == Equal_mix(i, x)
    IN  IF Equal_choose(i, x) THEN UserF(y) ELSE UserG(y)

\* mutant: x1 takes the chosen input, as x0 does
Equal_swap_same(i, a, b) ==
    LET x0 == IF Equal_choose(i, a) THEN a ELSE b
        x1 == IF Equal_choose(i, b) THEN b ELSE a
    IN  [x0 |-> x0, x1 |-> x1,
         failed |-> IF ~Equal_choose(i, x0) THEN "swap_x0"
                    ELSE IF Equal_choose(i, x1) THEN "swap_x1" ELSE "none"]

\* the pair, and the first of swap's assertions that fails
Equal_swap(i, a, b) ==
    LET x0 == IF Equal_choose(i, a) THEN a ELSE b
        x1 == IF Equal_choose(i, b) THEN a ELSE b
    IN  [x0 |-> x0, x1 |-> x1,
         failed |-> IF ~Equal_choose(i, x0) THEN "swap_x0"
                    ELSE IF Equal_choose(i, x1) THEN "swap_x1" ELSE "none"]

\* mutant: the predicate is called on (a, b) as given, not canonicalized
Equal_mix_good_pair_noswap(i, a, b) ==
    IF Equal_choose(i, a) = Equal_choose(i, b)
    THEN [res |-> FALSE, swapped |-> FALSE, gp |-> {}, failed |-> "none"]
    ELSE [res |-> is_good_pair(Equal_mix(i, a), Equal_mix(i, b)), swapped |-> FALSE,
          gp |-> {<<Equal_mix(i, a), Equal_mix(i, b)>>}, failed |-> "none"]

Equal_mix_good_pair(i, a, b) ==
    IF Equal_choose(i, a) = Equal_choose(i, b)
    THEN [res |-> FALSE, swapped |-> FALSE, gp |-> {}, failed |-> "none"]
    ELSE LET s == Equal_swap(i, a, b)
             y0 == Equal_mix(i, s.x0)
             y1 == Equal_mix(i, s.x1)
         IN  IF s.failed # "none"
             THEN [res |-> FALSE, swapped |-> TRUE, gp |-> {}, failed |-> s.failed]
             ELSE [res |-> is_good_pair(y0, y1), swapped |-> TRUE,
                   gp |-> {<<y0, y1>>}, failed |-> "none"]

(***************************************************************************)
(* LargerRangeClawWrapper                                                  *)
(***************************************************************************)
\* mutant: the branch read from the lowest bit that the shift keeps
Larger_choose_kept(i, x) == (pb.m - pb.n) \in x

Larger_choose(i, x) == 0 \in x

\* mutant: the shift down to n bits forgotten
Larger_mix_noshift(i, x) == Xor(i, x)

Larger_mix(i, x) == Shr(Xor(i, x), pb.m - pb.n)

Larger_mixf(i, x) ==
    LET y == Larger_mix(i, x)
    IN  IF Larger_choose(i, x) THEN UserF(y) ELSE UserG(y)

Larger_swap(i, a, b) ==
    LET x0 == IF Larger_choose(i, a) THEN a ELSE b
        x1 == IF Larger_choose(i, b) THEN a ELSE b
    IN  [x0 |-> x0, x1 |-> x1,
         failed |-> IF ~Larger_choose(i, x0) THEN "swap_x0"
                    ELSE IF Larger_choose(i, x1) THEN "swap_x1" ELSE "none"]

Larger_mix_good_pair(i, a, b) ==
    IF Larger_choose(i, a) = Larger_choose(i, b)
    THEN [res |-> FALSE, swapped |-> FALSE, gp |-> {}, failed |-> "none"]
    ELSE LET s == Larger_swap(i, a, b)
             y0 == Larger_mix(i, s.x0)
             y1 == Larger_mix(i, s.x1)
         IN  IF s.failed # "none"
             THEN [res |-> FALSE, swapped |-> TRUE, gp |-> {}, failed |-> s.failed]
             ELSE [res |-> is_good_pair(y0, y1), swapped |-> TRUE,
                   gp |-> {<<y0, y1>>}, failed |-> "none"]

(***************************************************************************)
(* The wrapper the front end constructed                                   *)
(***************************************************************************)
choose(i, x) ==
    IF wrapper = "equal" THEN Equal_choose(i, x) ELSE Larger_choose(i, x)

mix(i, x) ==
    CASE wrapper = "collision" -> Collision_mix(i, x)
      [] wrapper = "equal"     -> Equal_mix(i, x)
      [] OTHER                 -> Larger_mix(i, x)

mixf(i, x) ==
    CASE wrapper = "collision" -> Collision_mixf(i, x)
      [] wrapper = "equal"     -> Equal_mixf(i, x)
      [] OTHER                 -> Larger_mixf(i, x)

swap(i, a, b) ==
    IF wrapper = "equal" THEN Equal_swap(i, a, b) ELSE Larger_swap(i, a, b)

mix_good_pair(i, a, b) ==
    CASE wrapper = "collision" -> Collision_mix_good_pair(i, a, b)
      [] wrapper = "equal"     -> Equal_mix_good_pair(i, a, b)
      [] OTHER                 -> Larger_mix_good_pair(i, a, b)

(***************************************************************************)
(* The search front ends.  _Engine::run is not part of the wrappers: its   *)
(* answer (i, a, b) is an input here.                                      *)
(***************************************************************************)
\* what a call did: the first assertion that failed ("none": it returned),
\* the values it returned, and the user functions it called
Ret(op, i, a, b, failed, x0, x1, val, res, calls, gp, swapped) ==
    [op |-> op, i |-> i, a |-> a, b |-> b, failed |-> failed, x0 |-> x0,
     x1 |-> x1, val |-> val, res |-> res, calls |-> calls, gp |-> gp,
     swapped |-> swapped]

NoRet == Ret("init", {}, {}, {}, "none", {}, {}, {}, FALSE, {}, {}, FALSE)

\* (1 << pb.n) - 1, computed in int and converted to u64 for the &.
\* n = 31: 1 << 31 is INT_MIN and INT_MIN - 1 wraps to INT_MAX.
\* n >= 32: the shift count is not smaller than the width of int; the build
\* either uses the count modulo 32 (x86 shl) or shifts the bit out (result
\* 0, and 0 - 1 = -1 converts to the u64 with all bits set).
IntMask(n) ==
    IF n < IntBits THEN 0..(n - 1)
    ELSE IF shiftUB = "mod" THEN 0..((n % IntBits) - 1)
    ELSE 0..(U64Bits - 1)

\* the quality control of claw_search on (x0, x1)
QualityControl(x0, x1) ==
    LET fx == UserF(x0)
        gx == UserG(x1)
    IN  IF And(x0, IntMask(pb.n)) # x0 THEN "qc_x0"
        ELSE IF And(x1, IntMask(pb.n)) # x1 THEN "qc_x1"
        ELSE IF ~fx.ok THEN "f_pre"
        ELSE IF ~gx.ok THEN "g_pre"
        ELSE IF fx.val # gx.val THEN "qc_claw"
        ELSE IF ~is_good_pair(x0, x1) THEN "qc_good"
        ELSE "none"

claw_search(i, a, b) ==
    IF pb.n > pb.m
    THEN Ret("claw_search", i, a, b, "unsupported", {}, {}, {}, FALSE, {}, {}, FALSE)
    ELSE LET s  == swap(i, a, b)
             x0 == mix(i, s.x0)
             x1 == mix(i, s.x1)
             failed == IF s.failed # "none" THEN s.failed ELSE QualityControl(x0, x1)
         IN  Ret("claw_search", i, a, b, failed, x0, x1, {}, FALSE, {}, {}, TRUE)

\* mutant: the engine's pair reported as it is, not demixed
collision_search_nomix(i, x, y) ==
    LET fa == UserF(x)
        fb == UserF(y)
        failed == IF x = y THEN "cs_neq"
                  ELSE IF ~fa.ok \/ ~fb.ok THEN "f_pre"
                  ELSE IF fa.val # fb.val THEN "cs_coll"
                  ELSE IF ~is_good_pair(x, y) THEN "cs_good"
                  ELSE "none"
    IN  Ret("collision_search", i, x, y, failed, x, y, {}, FALSE, {}, {}, FALSE)

collision_search(i, x, y) ==
    LET a  == Collision_mix(i, x)
        b  == Collision_mix(i, y)
        fa == UserF(a)
        fb == UserF(b)
        failed == IF a = b THEN "cs_neq"
                  ELSE IF ~fa.ok \/ ~fb.ok THEN "f_pre"
                  ELSE IF fa.val # fb.val THEN "cs_coll"
                  ELSE IF ~is_good_pair(a, b) THEN "cs_good"
                  ELSE "none"
    IN  Ret("collision_search", i, x, y, failed, a, b, {}, FALSE, {}, {}, FALSE)

(***************************************************************************)
(* The parts of the state a specification does not use stay as they are    *)
(***************************************************************************)
WrapRest ==
    /\ wrapper = "none"
    /\ pb = [n |-> 1, m |-> 1, f |-> <<>>, g |-> <<>>, golden |-> {}]
    /\ shiftUB = "mod"
    /\ n_eval = 0
    /\ h_mixf = 0 - 1
    /\ ret = NoRet

HistRest ==
    /\ h_inp1 = 0
    /\ h_container = <<>>
    /\ h_attempts = 0
    /\ h_version = 0

CDRest ==
    /\ A = <<>>
    /\ cd_pc = "none"
    /\ cd_op = [name |-> "none", key |-> 0, value |-> 0]
    /\ cd_h = 0
    /\ cd_steps = 0
    /\ cd_keys = <<>>
    /\ cd_hist = <<>>

SdRest ==
    /\ sd_par = [n_send |-> 0, n_recv |-> 0, n |-> 0]
    /\ bcasts = <<>>
    /\ sd_pc = <<>>
    /\ sd_ep = <<>>
    /\ sd_j = <<>>
    /\ sd_ndp = <<>>
    /\ sd_starts = <<>>
    /\ sd_push = <<>>
    /\ sd_busy = <<>>
    /\ sd_assign = <<>>
    /\ sd_buf = <<>>
    /\ sd_sent = <<>>
    /\ sd_routed = <<>>
    /\ sd_home = <<>>

NvRest ==
    /\ nv_par = [n_send |-> 0, n_recv |-> 0, f |-> <<>>, g |-> <<>>, good |-> {}]
    /\ nv_phase = 0
    /\ nv_x = <<>>
    /\ nv_chan = <<>>
    /\ nv_dict = <<>>
    /\ nv_result = <<>>
    /\ nv_hung = <<>>
    /\ nv_ret = <<>>
    /\ nv_ctr = <<>>
    /\ nv_arr = <<>>

KbRest ==
    /\ kb_par = [n |-> 0, f |-> <<>>, g |-> <<>>]
    /\ kb_phase = 0
    /\ kb_x = 0
    /\ kb_dict = <<>>
    /\ kb_nkeys = 0
    /\ kb_stop = "none"

PtRest ==
    /\ pt_par = [n |-> 0, n_send |-> 0]
    /\ pt_rank = 0
    /\ pt_lo = <<>>
    /\ pt_hi = <<>>

ExtRest ==
    /\ CDRest
    /\ SdRest
    /\ NvRest
    /\ PtRest
    /\ KbRest

SeqRest ==
    /\ dict = <<>>
    /\ buf1 = <<0, 0>>
    /\ inp1_pt = 1
    /\ out1_pt = 2
    /\ chain_length1 = 0
    /\ is_collision_found = FALSE
    /\ n_collisions = 0
    /\ n_dist_points = 0
    /\ collisions_container = <<>>
    /\ pc = "none"
    /\ w_len0 = 0
    /\ w_len1 = 0
    /\ w_len = 0
    /\ w_i = 0
    /\ found_collision = FALSE
    /\ result = <<0, 0>>

DPRest ==
    /\ Pb = [f |-> <<>>, g |-> <<>>, f_eq_g |-> TRUE, emb |-> 0]
    /\ pre_inp0 = 0
    /\ buf0 = <<0, 0>>
    /\ inp0_pt = 1
    /\ out0_pt = 2
    /\ chain_length0 = 0
    /\ difficulty = 0
    /\ gd_pc = "idle"
    /\ gd_i = 0
    /\ found_dist = FALSE
    /\ cl_before = 0

(***************************************************************************)
(* SpecWrap: a problem is drawn, its wrapper constructed, and the wrapper  *)
(* and the front ends are called on drawn arguments                        *)
(***************************************************************************)
WrapInit ==
    /\ \E w \in {"collision", "equal", "larger", "none"}, n \in Widths, m \in Widths :
          /\ CASE w = "collision" -> n <= m
               [] w = "equal"     -> n = m
               [] w = "larger"    -> n < m
               [] OTHER           -> n > m
          /\ \E f \in FunFam(n), g \in FunFam(n), gold \in GoldFam(n) :
                /\ w \in {"collision", "none"} => g = f
                /\ wrapper = w
                /\ pb = [n |-> n, m |-> m, f |-> f, g |-> g, golden |-> gold]
    /\ shiftUB \in {"mod", "zero"}
    /\ n_eval \in 0..MaxEval
    /\ h_mixf = 0 - 1
    /\ ret = NoRet
    /\ DPRest
    /\ SeqRest
    /\ HistRest
    /\ ExtRest

CallMix ==
    /\ ret.op = "init"
    /\ wrapper # "none"
    /\ \E i \in Vals(pb.m), x \in Vals(pb.m) :
          ret' = Ret("mix", i, x, {}, "none", {}, {}, mix(i, x), FALSE, {}, {}, FALSE)
    /\ UNCHANGED <<wrapper, pb, shiftUB, n_eval, h_mixf, dpVars, seqVars, histVars, extVars>>

CallChoose ==
    /\ ret.op = "init"
    /\ wrapper \in {"equal", "larger"}
    /\ \E i \in Vals(pb.m), x \in Vals(pb.m) :
          ret' = Ret("choose", i, x, {}, "none", {}, {}, {}, choose(i, x), {}, {}, FALSE)
    /\ UNCHANGED <<wrapper, pb, shiftUB, n_eval, h_mixf, dpVars, seqVars, histVars, extVars>>

CallMixf ==
    /\ ret.op = "init"
    /\ wrapper # "none"
    /\ n_eval < MaxEval
    /\ n_eval' = n_eval + 1
    /\ h_mixf' = IF h_mixf >= 0 THEN h_mixf + 1 ELSE h_mixf
    /\ \E i \in Vals(pb.m), x \in Vals(pb.m) :
          LET r == mixf(i, x)
          IN  ret' = Ret("mixf", i, x, {}, IF r.ok THEN "none" ELSE "f_pre", {}, {},
                         r.val, FALSE, {<<r.fn, r.arg>>}, {}, FALSE)
    /\ UNCHANGED <<wrapper, pb, shiftUB, dpVars, seqVars, histVars, extVars>>

CallSwap ==
    /\ ret.op = "init"
    /\ wrapper \in {"equal", "larger"}
    /\ \E i \in Vals(pb.m), a \in Vals(pb.m), b \in Vals(pb.m) :
          LET s == swap(i, a, b)
          IN  ret' = Ret("swap", i, a, b, s.failed, s.x0, s.x1, {}, FALSE, {}, {}, TRUE)
    /\ UNCHANGED <<wrapper, pb, shiftUB, n_eval, h_mixf, dpVars, seqVars, histVars, extVars>>

\* mutant: the evaluation made by the user predicate is counted
CallMixGoodPair_counted ==
    /\ ret.op = "init"
    /\ wrapper # "none"
    /\ \E i \in Vals(pb.m), a \in Vals(pb.m), b \in Vals(pb.m) :
          LET r == mix_good_pair(i, a, b)
          IN  ret' = Ret("mix_good_pair", i, a, b, r.failed, {}, {}, {}, r.res, {},
                         r.gp, r.swapped)
    /\ n_eval' = n_eval + 1
    /\ UNCHANGED <<wrapper, pb, shiftUB, h_mixf, dpVars, seqVars, histVars, extVars>>

CallMixGoodPair ==
    /\ ret.op = "init"
    /\ wrapper # "none"
    /\ \E i \in Vals(pb.m), a \in Vals(pb.m), b \in Vals(pb.m) :
          LET r == mix_good_pair(i, a, b)
          IN  ret' = Ret("mix_good_pair", i, a, b, r.failed, {}, {}, {}, r.res, {},
                         r.gp, r.swapped)
    /\ UNCHANGED <<wrapper, pb, shiftUB, n_eval, h_mixf, dpVars, seqVars, histVars, extVars>>

\* pcs_sender.hpp line 26, at the start of an epoch: Pb.n_eval = 0
ResetEval ==
    /\ ret.op = "init"
    /\ wrapper # "none"
    /\ n_eval' = 0
    /\ h_mixf' = 0
    /\ UNCHANGED <<wrapper, pb, shiftUB, ret, dpVars, seqVars, histVars, extVars>>

ClawSearch ==
    /\ ret.op = "init"
    /\ wrapper \in {"equal", "larger", "none"}
    /\ \E i \in Vals(pb.m), a \in Vals(pb.m), b \in Vals(pb.m) :
          ret' = claw_search(i, a, b)
    /\ UNCHANGED <<wrapper, pb, shiftUB, n_eval, h_mixf, dpVars, seqVars, histVars, extVars>>

CollisionSearch ==
    /\ ret.op = "init"
    /\ wrapper = "collision"
    /\ \E i \in Vals(pb.m), x \in Vals(pb.m), y \in Vals(pb.m) :
          ret' = collision_search(i, x, y)
    /\ UNCHANGED <<wrapper, pb, shiftUB, n_eval, h_mixf, dpVars, seqVars, histVars, extVars>>

\* the caller has looked at the result and goes on
Return ==
    /\ ret.op # "init"
    /\ ret' = NoRet
    /\ UNCHANGED <<wrapper, pb, shiftUB, n_eval, h_mixf, dpVars, seqVars, histVars, extVars>>

WrapNext ==
    \/ Return
    \/ ResetEval
    \/ CallMix
    \/ CallChoose
    \/ CallMixf
    \/ CallSwap
    \/ CallMixGoodPair
    \/ ClawSearch
    \/ CollisionSearch

SpecWrap == WrapInit /\ [][WrapNext]_vars

(***************************************************************************)
(* Properties of the wrappers and the front ends (SpecWrap)                *)
(***************************************************************************)
IsClaw == wrapper \in {"equal", "larger"}

\* what the engine's answer (i, a, b) is assumed to satisfy
EnginePre(i, a, b) ==
    LET ra == mixf(i, a)
        rb == mixf(i, b)
    IN  ra.ok /\ rb.ok /\ ra.val = rb.val /\ mix_good_pair(i, a, b).res

\* C2: whenever the engine returns (i, a, b) with mixf(i, a) = mixf(i, b) and
\* mix_good_pair(i, a, b), claw_search returns (x0, x1) with x0, x1 < 2^n,
\* f(x0) = g(x1) and is_good_pair(x0, x1), and no assertion of swap or of the
\* quality control fails.
C2_ClawSearchGolden ==
    (ret.op = "claw_search" /\ IsClaw /\ EnginePre(ret.i, ret.a, ret.b))
    => /\ ret.failed = "none"
       /\ Below(ret.x0, pb.n) /\ Below(ret.x1, pb.n)
       /\ UserF(ret.x0).val = UserG(ret.x1).val
       /\ is_good_pair(ret.x0, ret.x1)

\* C2, for the widths n < 32 whose mask the quality control computes without
\* overflow: the same statement holds (it is the int mask alone that fails).
C2_ClawSearchGolden_IntWidths ==
    pb.n < IntBits => C2_ClawSearchGolden

\* C3: whenever the engine returns (i, x, y) with x # y, mixf(i, x) = mixf(i, y)
\* and mix_good_pair(i, x, y), collision_search returns (a, b) = (mix(i, x),
\* mix(i, y)) with a # b, f(a) = f(b), is_good_pair(a, b); no assertion fails.
C3_CollisionSearchPost ==
    (ret.op = "collision_search" /\ ret.a # ret.b /\ EnginePre(ret.i, ret.a, ret.b))
    => /\ ret.failed = "none"
       /\ ret.x0 = Xor(ret.i, ret.a) /\ ret.x1 = Xor(ret.i, ret.b)
       /\ ret.x0 # ret.x1
       /\ UserF(ret.x0).ok /\ UserF(ret.x1).ok
       /\ UserF(ret.x0).val = UserF(ret.x1).val
       /\ is_good_pair(ret.x0, ret.x1)

C3_Witness ==
    /\ ret.op = "collision_search" /\ ret.a # ret.b
    /\ EnginePre(ret.i, ret.a, ret.b)
    /\ ret.i # {} /\ ret.failed = "none"

\* C4: with the collision wrapper and n <= m, every value mixf(i, x) passes
\* to f is a masked n-bit input: mix(i, x) & (2^n - 1) = mix(i, x).
C4_CollisionInputMasked ==
    (wrapper = "collision" /\ ret.op = "mixf")
    => \A c \in ret.calls : And(c[2], Mask(pb.n)) = c[2]

\* C5: with the two claw wrappers, for all m-bit i and x the value mix(i, x)
\* that mixf hands to f or g is smaller than 2^n, so the user functions'
\* assertion (k & mask) == k does not fail.
C5_ClawInputBelow ==
    /\ (IsClaw /\ ret.op = "mixf")
       => /\ ret.failed = "none"
          /\ ret.calls # {}
          /\ \A c \in ret.calls : c[2] = mix(ret.i, ret.a) /\ Below(c[2], pb.n)
    /\ (IsClaw /\ ret.op = "mix") => Below(ret.val, pb.n)

C5_Witness ==
    /\ wrapper = "larger" /\ ret.op = "mixf" /\ pb.n > 1
    /\ \E c \in ret.calls : (pb.n - 1) \in c[2]

\* C6: for both claw wrappers and all i, a, b with choose(i, a) # choose(i, b),
\* swap(i, a, b) is a permutation (x0, x1) of (a, b) with choose(i, x0) = 1 and
\* choose(i, x1) = 0, swap(i, a, b) = swap(i, b, a), and swap's two assertions
\* hold.
C6_SwapCanonical ==
    (ret.op = "swap" /\ choose(ret.i, ret.a) # choose(ret.i, ret.b))
    => /\ ret.failed = "none"
       /\ \/ ret.x0 = ret.a /\ ret.x1 = ret.b
          \/ ret.x0 = ret.b /\ ret.x1 = ret.a
       /\ choose(ret.i, ret.x0) /\ ~choose(ret.i, ret.x1)
       /\ LET t == swap(ret.i, ret.b, ret.a)
          IN  t.x0 = ret.x0 /\ t.x1 = ret.x1 /\ t.failed = "none"

C6_Witness ==
    /\ ret.op = "swap" /\ wrapper = "equal"
    /\ choose(ret.i, ret.a) # choose(ret.i, ret.b)
    /\ ret.x0 = ret.b /\ ret.i # {}

\* C7 as stated: for the equal-size wrapper and all i, a, b, with (x0, x1) =
\* swap(i, a, b), choose(i, mix(i, x0)) = 1 and choose(i, mix(i, x1)) = 0
\* (read for the i, a, b on which swap returns a pair).
C7_MixedChoose_Original ==
    (ret.op = "swap" /\ wrapper = "equal" /\ ret.failed = "none")
    => /\ choose(ret.i, mix(ret.i, ret.x0))
       /\ ~choose(ret.i, mix(ret.i, ret.x1))

\* C7 amended: for the equal-size wrapper and all i, a, b with choose(i, a) #
\* choose(i, b) (those on which swap returns), with (x0, x1) = swap(i, a, b):
\* choose(i, x0) = 1 and
\* choose(i, x1) = 0 (choose is taken of x0 and x1, not of their mixed values),
\* and mixf evaluates f on mix(i, x0) and g on mix(i, x1).
C7_SwapBranches ==
    (ret.op = "swap" /\ wrapper = "equal" /\ choose(ret.i, ret.a) # choose(ret.i, ret.b))
    => /\ choose(ret.i, ret.x0) /\ ~choose(ret.i, ret.x1)
       /\ LET r0 == mixf(ret.i, ret.x0)
              r1 == mixf(ret.i, ret.x1)
          IN  /\ r0.fn = "f" /\ r0.arg = mix(ret.i, ret.x0)
              /\ r1.fn = "g" /\ r1.arg = mix(ret.i, ret.x1)

C7_Witness ==
    /\ ret.op = "swap" /\ wrapper = "equal"
    /\ choose(ret.i, ret.a) # choose(ret.i, ret.b)
    /\ ~choose(ret.i, mix(ret.i, ret.x0))

\* the f-side and the g-side of {a, b}
FSide(i, a, b) == IF choose(i, a) THEN a ELSE b

GSide(i, a, b) == IF choose(i, a) THEN b ELSE a

\* C8: mix_good_pair(i, a, b) of the claw wrappers returns false without
\* calling the user predicate and without reaching swap when choose(i, a) =
\* choose(i, b); otherwise it returns is_good_pair(mix(i, x0), mix(i, x1)),
\* x0 the f-side and x1 the g-side of {a, b}.
C8_MixGoodPair ==
    (ret.op = "mix_good_pair" /\ IsClaw)
    => IF choose(ret.i, ret.a) = choose(ret.i, ret.b)
       THEN ~ret.res /\ ret.gp = {} /\ ~ret.swapped
       ELSE LET y0 == mix(ret.i, FSide(ret.i, ret.a, ret.b))
                y1 == mix(ret.i, GSide(ret.i, ret.a, ret.b))
            IN  /\ ret.failed = "none"
                /\ ret.gp = {<<y0, y1>>}
                /\ ret.res = is_good_pair(y0, y1)

C8_Witness ==
    /\ ret.op = "mix_good_pair" /\ wrapper = "equal"
    /\ ~choose(ret.i, ret.a) /\ choose(ret.i, ret.b)
    /\ ret.res /\ ret.swapped

(***************************************************************************)
(* mitm_sequential.hpp: the problem and its domain C.                      *)
(* The domain's points are the numbers below 2^CBits.                      *)
(***************************************************************************)
NC == 2^CBits

CDom == 0..(NC - 1)

RECURSIVE NatXor(_, _)
NatXor(a, b) ==
    IF a = 0 /\ b = 0 THEN 0
    ELSE ((a + b) % 2) + 2 * NatXor(a \div 2, b \div 2)

RECURSIVE NatAnd(_, _)
NatAnd(a, b) ==
    IF a = 0 \/ b = 0 THEN 0
    ELSE ((a % 2) * (b % 2)) + 2 * NatAnd(a \div 2, b \div 2)

\* the user's functions: y = a * x * x + c on the domain (demo: 42, 1337)
SeqFam ==
    {[x \in CDom |-> (ac[1] * x * x + ac[2]) % NC] :
        ac \in {<<1, 0>>, <<1, 1>>, <<2, 1>>}}

\* the embeddings tried: the identity and the complement
Embeddings == {0, NC - 1}

\* IntDomain::hash
hash(x) == x

\* AbstractDomain::extract_1_bit: the branch bit of a point
extract_1_bit(x) == x % 2

\* AbstractProblem::send_C_to_A, send_C_to_B: the current embedding of C
send_C_to_A(x) == NatXor(x, Pb.emb)

send_C_to_B(x) == NatXor(x, Pb.emb)

iterate_once(inp) ==
    IF extract_1_bit(inp) = 1
    THEN Pb.f[send_C_to_A(inp)]
    ELSE Pb.g[send_C_to_B(inp)]

\* mutant: distinguished when the masked bits are all one
is_distinguished_point_ones(digest, mask) == mask = NatAnd(mask, digest)

is_distinguished_point(digest, mask) == 0 = NatAnd(mask, digest)

k == 40

\* mutant: one iteration more (i <= k * 2^d)
LoopBound_inclusive(d) == k * 2^d + 1

\* k*(1LL<<difficulty)
LoopBound(d) == k * 2^d

\* (1LL<<difficulty) - 1
DPMask(d) == 2^d - 1

(***************************************************************************)
(* generate_dist_point, one loop iteration per step                        *)
(***************************************************************************)
\* the call: Pb.C.copy(inp0, *tmp_inp_pt), the locals initialised
GdpEnter(seed, cl, d) ==
    /\ pre_inp0' = seed
    /\ chain_length0' = cl
    /\ cl_before' = cl
    /\ difficulty' = d
    /\ buf0' = [buf0 EXCEPT ![inp0_pt] = seed]
    /\ gd_i' = 0
    /\ found_dist' = FALSE
    /\ gd_pc' = "loop"

GdpIter ==
    /\ gd_pc = "loop"
    /\ gd_i < LoopBound(difficulty)
    /\ LET out == iterate_once(buf0[inp0_pt])
       IN  /\ buf0' = [buf0 EXCEPT ![out0_pt] = out]
           /\ chain_length0' = chain_length0 + 1
           /\ IF is_distinguished_point(hash(out), DPMask(difficulty))
              THEN /\ found_dist' = TRUE
                   /\ gd_pc' = "done"
                   /\ UNCHANGED <<inp0_pt, out0_pt, gd_i>>
              ELSE /\ inp0_pt' = out0_pt
                   /\ out0_pt' = inp0_pt
                   /\ gd_i' = gd_i + 1
                   /\ UNCHANGED <<found_dist, gd_pc>>
    /\ UNCHANGED <<Pb, pre_inp0, difficulty, cl_before, wrapVars, seqVars, histVars, extVars>>

GdpExit ==
    /\ gd_pc = "loop"
    /\ gd_i >= LoopBound(difficulty)
    /\ found_dist' = FALSE
    /\ gd_pc' = "done"
    /\ UNCHANGED <<Pb, pre_inp0, buf0, inp0_pt, out0_pt, chain_length0, difficulty,
                   gd_i, cl_before, wrapVars, seqVars, histVars, extVars>>

(***************************************************************************)
(* SpecDP: generate_dist_point called on drawn arguments, with fresh       *)
(* buffers in either order                                                 *)
(***************************************************************************)
DPFresh ==
    /\ pre_inp0 = 0
    /\ buf0 = <<0, 0>>
    /\ chain_length0 = 0
    /\ difficulty = 0
    /\ gd_pc = "idle"
    /\ gd_i = 0
    /\ found_dist = FALSE
    /\ cl_before = 0

DPInit ==
    /\ WrapRest
    /\ SeqRest
    /\ HistRest
    /\ ExtRest
    /\ \E f \in SeqFam, g \in SeqFam, e \in Embeddings, eq \in BOOLEAN :
          /\ eq => g = f
          /\ Pb = [f |-> f, g |-> g, f_eq_g |-> eq, emb |-> e]
    /\ inp0_pt \in {1, 2}
    /\ out0_pt = 3 - inp0_pt
    /\ DPFresh

GdpCall ==
    /\ gd_pc = "idle"
    /\ \E seed \in CDom, cl \in 0..1, d \in 0..MaxDifficulty : GdpEnter(seed, cl, d)
    /\ UNCHANGED <<Pb, inp0_pt, out0_pt, wrapVars, seqVars, histVars, extVars>>

GdpReturn ==
    /\ gd_pc = "done"
    /\ pre_inp0' = 0
    /\ buf0' = <<0, 0>>
    /\ chain_length0' = 0
    /\ difficulty' = 0
    /\ gd_pc' = "idle"
    /\ gd_i' = 0
    /\ found_dist' = FALSE
    /\ cl_before' = 0
    /\ \E o \in {1, 2} : inp0_pt' = o /\ out0_pt' = 3 - o
    /\ UNCHANGED <<Pb, wrapVars, seqVars, histVars, extVars>>

DPNext ==
    \/ GdpCall
    \/ GdpIter
    \/ GdpExit
    \/ GdpReturn

SpecDP == DPInit /\ [][DPNext]_vars

\* a call that has started goes on running
SpecDPFair == SpecDP /\ WF_vars(GdpIter) /\ WF_vars(GdpExit)

(***************************************************************************)
(* Properties of generate_dist_point                                       *)
(***************************************************************************)
\* iterate_once composed with itself 2^e times
RECURSIVE FPow(_)
FPow(e) ==
    IF e = 0 THEN [x \in CDom |-> iterate_once(x)]
    ELSE LET h == FPow(e - 1) IN [x \in CDom |-> h[h[x]]]

RECURSIVE IterBits(_, _, _)
IterBits(x, j, e) ==
    IF j = 0 THEN x
    ELSE IterBits(IF j % 2 = 1 THEN FPow(e)[x] ELSE x, j \div 2, e + 1)

\* the j-th iterate of x, composed along the binary digits of j
IterN(x, j) == IterBits(x, j, 0)

Distinguished(x, d) == hash(x) % (2^d) = 0

\* C9: when generate_dist_point returns true having increased chain_length by
\* L, then L >= 1, *out_pt is the L-th iterate of the seed, its hash has d
\* zero low bits, and none of the iterates 1..L-1 is distinguished.
C9_DistPoint ==
    (gd_pc = "done" /\ found_dist)
    => LET L == chain_length0 - cl_before
       IN  /\ L >= 1
           /\ buf0[out0_pt] = IterN(pre_inp0, L)
           /\ Distinguished(buf0[out0_pt], difficulty)
           /\ \A j \in 1..(L - 1) : ~Distinguished(IterN(pre_inp0, j), difficulty)

C9_Witness ==
    /\ gd_pc = "done" /\ found_dist
    /\ chain_length0 - cl_before >= 2
    /\ difficulty >= 1 /\ cl_before = 1

\* C10 (state part): generate_dist_point applies the iteration function at
\* most 40 * 2^d times; it returns false exactly when none of the first
\* 40 * 2^d iterates of the seed is distinguished, and then chain_length has
\* grown by exactly 40 * 2^d.
C10_Budget ==
    LET budget == 40 * 2^difficulty
        grown  == chain_length0 - cl_before
    IN  /\ grown <= budget
        /\ gd_pc = "loop" => grown = gd_i
        /\ gd_pc = "done" =>
              /\ ~found_dist <=>
                    \A j \in 1..budget : ~Distinguished(IterN(pre_inp0, j), difficulty)
              /\ ~found_dist => grown = budget

\* C10: the above in every state, and every call of generate_dist_point
\* returns.
C10_BoundedWalk == []C10_Budget /\ ((gd_pc = "loop") ~> (gd_pc = "done"))

C10_Witness ==
    /\ gd_pc = "done" /\ ~found_dist
    /\ difficulty = 1 /\ chain_length0 = 81

(***************************************************************************)
(* The dictionary (dict.hpp): open addressing with linear probing over     *)
(* n_slots slots; a slot holds the key, the chain's seed and its length    *)
(***************************************************************************)
n_slots == NSlots

EmptySlot == [key |-> -1, seed |-> 0, len |-> 0]

\* dict.flush()
flush == [s \in 0..(n_slots - 1) |-> EmptySlot]

\* the slot a probe for key ends at: <<"empty", s>>, <<"match", s>>, or
\* <<"full", s>> after n_slots probes
RECURSIVE Probe(_, _, _, _)
Probe(d, key, s, tries) ==
    IF tries = n_slots THEN <<"full", s>>
    ELSE IF d[s] = EmptySlot THEN <<"empty", s>>
    ELSE IF d[s].key = key THEN <<"match", s>>
    ELSE Probe(d, key, (s + 1) % n_slots, tries + 1)

\* dict.pop_insert(key, value, chain_length, out, out_chain_length, Pb):
\* [found, dict, out, out_len], out and out_len written on a match only
pop_insert(d, digest, value, len, out, out_len) ==
    LET key == digest % KeyMod
        p   == Probe(d, key, digest % n_slots, 0)
    IN  IF p[1] = "empty"
        THEN [found |-> FALSE,
              dict |-> [d EXCEPT ![p[2]] = [key |-> key, seed |-> value, len |-> len]],
              out |-> out, out_len |-> out_len]
        ELSE IF p[1] = "match"
        THEN [found |-> TRUE, dict |-> d,
              out |-> d[p[2]].seed, out_len |-> d[p[2]].len]
        ELSE [found |-> FALSE, dict |-> d, out |-> out, out_len |-> out_len]

(***************************************************************************)
(* send_2_A_and_B: [ok, inp_A, inp_B]                                      *)
(***************************************************************************)
send_2_A_and_B(inp0_C, inp1_C) ==
    IF Pb.f_eq_g
    THEN [ok |-> TRUE, inp_A |-> send_C_to_A(inp0_C), inp_B |-> send_C_to_B(inp1_C)]
    ELSE IF extract_1_bit(inp0_C) = 1
    THEN IF extract_1_bit(inp1_C) = 0
         THEN [ok |-> FALSE, inp_A |-> send_C_to_A(inp0_C), inp_B |-> send_C_to_B(inp1_C)]
         ELSE [ok |-> FALSE, inp_A |-> 0, inp_B |-> 0]
    ELSE IF extract_1_bit(inp1_C) = 1
         THEN [ok |-> TRUE, inp_A |-> send_C_to_A(inp1_C), inp_B |-> send_C_to_B(inp0_C)]
         ELSE [ok |-> FALSE, inp_A |-> 0, inp_B |-> 0]

(***************************************************************************)
(* collision(): the sequential engine, one step per loop test, per         *)
(* iteration of generate_dist_point and per iteration of walk.  The        *)
(* counters that are only printed (n_distinguished_points, n_robinhoods,   *)
(* the timers) are not state of the model.                                 *)
(***************************************************************************)
n_needed_collisions == NeededCollisions

SeqInit ==
    /\ WrapRest
    /\ HistRest
    /\ ExtRest
    /\ \E f \in SeqFam, g \in SeqFam, eq \in BOOLEAN :
          /\ eq => g = f
          /\ Pb = [f |-> f, g |-> g, f_eq_g |-> eq, emb |-> 0]
    /\ inp0_pt = 1
    /\ out0_pt = 2
    /\ DPFresh
    /\ dict = flush
    /\ buf1 = <<0, 0>>
    /\ inp1_pt = 1
    /\ out1_pt = 2
    /\ chain_length1 = 0
    /\ is_collision_found = FALSE
    /\ n_collisions = 0
    /\ n_dist_points = 0
    /\ collisions_container = <<>>
    /\ pc = "while"
    /\ w_len0 = 0
    /\ w_len1 = 0
    /\ w_len = 0
    /\ w_i = 0
    /\ found_collision = FALSE
    /\ result = <<0, 0>>

\* mutant: a version starts without dict.flush()
WhileEnter_noflush ==
    /\ pc = "while"
    /\ n_collisions < n_needed_collisions
    /\ \E e \in Embeddings : Pb' = [Pb EXCEPT !.emb = e]
    /\ dict' = dict
    /\ n_dist_points' = 0
    /\ h_attempts' = 0
    /\ h_version' = IF h_version < 2 THEN h_version + 1 ELSE h_version
    /\ pc' = "for"
    /\ UNCHANGED <<pre_inp0, buf0, inp0_pt, out0_pt, chain_length0, difficulty,
                   gd_pc, gd_i, found_dist, cl_before,
                   buf1, inp1_pt, out1_pt, chain_length1, is_collision_found,
                   n_collisions, collisions_container,
                   w_len0, w_len1, w_len, w_i, found_collision, result, wrapVars, h_inp1, h_container, extVars>>

\* while (n_collisions < n_needed_collisions): update_embedding, dict.flush
WhileEnter ==
    /\ pc = "while"
    /\ n_collisions < n_needed_collisions
    /\ \E e \in Embeddings : Pb' = [Pb EXCEPT !.emb = e]
    /\ dict' = flush
    /\ n_dist_points' = 0
    /\ h_attempts' = 0
    /\ h_version' = IF h_version < 2 THEN h_version + 1 ELSE h_version
    /\ pc' = "for"
    /\ UNCHANGED <<pre_inp0, buf0, inp0_pt, out0_pt, chain_length0, difficulty,
                   gd_pc, gd_i, found_dist, cl_before,
                   buf1, inp1_pt, out1_pt, chain_length1, is_collision_found,
                   n_collisions, collisions_container,
                   w_len0, w_len1, w_len, w_i, found_collision, result, wrapVars, h_inp1, h_container, extVars>>

\* the while loop ends: return std::pair(*inp0_pt, *inp1_pt)
WhileExit ==
    /\ pc = "while"
    /\ n_collisions >= n_needed_collisions
    /\ result' = <<buf0[inp0_pt], buf1[inp1_pt]>>
    /\ pc' = "returned"
    /\ UNCHANGED <<dpVars, dict, buf1, inp1_pt, out1_pt, chain_length1,
                   is_collision_found, n_collisions, n_dist_points,
                   collisions_container, w_len0, w_len1, w_len, w_i,
                   found_collision, wrapVars, histVars, extVars>>

\* the for loop's test fails
ForExit ==
    /\ pc = "for"
    /\ n_dist_points >= 10 * n_slots
    /\ pc' = "while"
    /\ UNCHANGED <<dpVars, dict, buf1, inp1_pt, out1_pt, chain_length1,
                   is_collision_found, n_collisions, n_dist_points,
                   collisions_container, w_len0, w_len1, w_len, w_i,
                   found_collision, result, wrapVars, histVars, extVars>>

\* the for loop's body up to the call of generate_dist_point
ForDraw ==
    /\ pc = "for"
    /\ n_dist_points < 10 * n_slots
    /\ is_collision_found' = FALSE
    /\ h_attempts' = h_attempts + 1
    /\ \E seed \in CDom : GdpEnter(seed, 0, SeqDifficulty)
    /\ pc' = "gdp"
    /\ UNCHANGED <<Pb, inp0_pt, out0_pt, dict, buf1, inp1_pt, out1_pt,
                   chain_length1, n_collisions, n_dist_points,
                   collisions_container, w_len0, w_len1, w_len, w_i,
                   found_collision, result, wrapVars, h_inp1, h_container, h_version, extVars>>

\* generate_dist_point returned false: continue
ChainAbandoned ==
    /\ pc = "gdp"
    /\ gd_pc = "done"
    /\ ~found_dist
    /\ gd_pc' = "idle"
    /\ n_dist_points' = n_dist_points + 1
    /\ pc' = "for"
    /\ UNCHANGED <<Pb, pre_inp0, buf0, inp0_pt, out0_pt, chain_length0, difficulty,
                   gd_i, found_dist, cl_before,
                   dict, buf1, inp1_pt, out1_pt, chain_length1, is_collision_found,
                   n_collisions, collisions_container,
                   w_len0, w_len1, w_len, w_i, found_collision, result, wrapVars, histVars, extVars>>

\* generate_dist_point returned true: ++n_dist_points, dict.pop_insert; on a
\* hit ++n_collisions, copy pre_inp0 to *inp0_pt and enter walk
ChainStored ==
    /\ pc = "gdp"
    /\ gd_pc = "done"
    /\ found_dist
    /\ gd_pc' = "idle"
    /\ LET out0_digest == hash(buf0[out0_pt])
           r == pop_insert(dict, out0_digest, pre_inp0, chain_length0,
                           buf1[inp1_pt], chain_length1)
       IN  /\ dict' = r.dict
           /\ is_collision_found' = r.found
           /\ buf1' = [buf1 EXCEPT ![inp1_pt] = r.out]
           /\ chain_length1' = r.out_len
           /\ h_inp1' = r.out
           /\ h_container' = collisions_container
           /\ IF r.found
              THEN /\ n_collisions' = n_collisions + 1
                   /\ buf0' = [buf0 EXCEPT ![inp0_pt] = pre_inp0]
                   /\ n_dist_points' = n_dist_points + 1
                   /\ w_len0' = chain_length0
                   /\ w_len1' = r.out_len
                   /\ w_len' = IF chain_length0 < r.out_len THEN chain_length0
                               ELSE r.out_len
                   /\ w_i' = 0
                   /\ pc' = "walk"
              ELSE /\ n_dist_points' = n_dist_points + 2
                   /\ pc' = "for"
                   /\ UNCHANGED <<n_collisions, buf0, w_len0, w_len1, w_len, w_i>>
    /\ UNCHANGED <<Pb, pre_inp0, inp0_pt, out0_pt, chain_length0, difficulty,
                   gd_i, found_dist, cl_before, inp1_pt, out1_pt,
                   collisions_container, found_collision, result, h_attempts, h_version,
                   wrapVars, extVars>>

\* mutant: the first loop counts down without advancing the chain
WalkAlign0_idle ==
    /\ pc = "walk"
    /\ w_len0 > w_len1
    /\ w_len0' = w_len0 - 1
    /\ UNCHANGED <<dpVars, dict, buf1, inp1_pt, out1_pt, chain_length1,
                   is_collision_found, n_collisions, n_dist_points,
                   collisions_container, pc, w_len1, w_len, w_i,
                   found_collision, result, wrapVars, histVars, extVars>>

\* walk: the first loop, the chain of inp0 is the longer one
WalkAlign0 ==
    /\ pc = "walk"
    /\ w_len0 > w_len1
    /\ buf0' = [buf0 EXCEPT ![out0_pt] = iterate_once(buf0[inp0_pt])]
    /\ inp0_pt' = out0_pt
    /\ out0_pt' = inp0_pt
    /\ w_len0' = w_len0 - 1
    /\ UNCHANGED <<Pb, pre_inp0, chain_length0, difficulty, gd_pc, gd_i,
                   found_dist, cl_before,
                   dict, buf1, inp1_pt, out1_pt, chain_length1, is_collision_found,
                   n_collisions, n_dist_points, collisions_container, pc,
                   w_len1, w_len, w_i, found_collision, result, wrapVars, histVars, extVars>>

\* walk: the second loop, the chain of inp1 is the longer one
WalkAlign1 ==
    /\ pc = "walk"
    /\ w_len0 < w_len1
    /\ buf1' = [buf1 EXCEPT ![out1_pt] = iterate_once(buf1[inp1_pt])]
    /\ inp1_pt' = out1_pt
    /\ out1_pt' = inp1_pt
    /\ w_len1' = w_len1 - 1
    /\ UNCHANGED <<dpVars, dict, chain_length1, is_collision_found,
                   n_collisions, n_dist_points, collisions_container, pc,
                   w_len0, w_len, w_i, found_collision, result, wrapVars, histVars, extVars>>

\* walk: one iteration of the lockstep loop
WalkStep ==
    /\ pc = "walk"
    /\ w_len0 = w_len1
    /\ w_i < w_len
    /\ LET o0 == iterate_once(buf0[inp0_pt])
           o1 == iterate_once(buf1[inp1_pt])
       IN  /\ buf0' = [buf0 EXCEPT ![out0_pt] = o0]
           /\ buf1' = [buf1 EXCEPT ![out1_pt] = o1]
           /\ IF o0 = o1
              THEN /\ found_collision' = TRUE
                   /\ pc' = "treat"
                   /\ UNCHANGED <<inp0_pt, out0_pt, inp1_pt, out1_pt, w_i>>
              ELSE /\ inp0_pt' = out0_pt
                   /\ out0_pt' = inp0_pt
                   /\ inp1_pt' = out1_pt
                   /\ out1_pt' = inp1_pt
                   /\ w_i' = w_i + 1
                   /\ UNCHANGED <<found_collision, pc>>
    /\ UNCHANGED <<Pb, pre_inp0, chain_length0, difficulty, gd_pc, gd_i,
                   found_dist, cl_before,
                   dict, chain_length1, is_collision_found,
                   n_collisions, n_dist_points, collisions_container,
                   w_len0, w_len1, w_len, result, wrapVars, histVars, extVars>>

\* walk: the lockstep loop ends, return false
WalkEnd ==
    /\ pc = "walk"
    /\ w_len0 = w_len1
    /\ w_i >= w_len
    /\ found_collision' = FALSE
    /\ pc' = "treat"
    /\ UNCHANGED <<dpVars, dict, buf1, inp1_pt, out1_pt, chain_length1,
                   is_collision_found, n_collisions, n_dist_points,
                   collisions_container, w_len0, w_len1, w_len, w_i,
                   result, wrapVars, histVars, extVars>>

\* mutant: a Robin Hood is not rejected
is_potential_coll_robinhood ==
    /\ found_collision
    /\ send_2_A_and_B(buf0[inp0_pt], buf1[inp1_pt]).ok

\* what treat_collision returns after walk
is_potential_coll ==
    /\ found_collision
    /\ buf0[inp0_pt] # buf1[inp1_pt]
    /\ send_2_A_and_B(buf0[inp0_pt], buf1[inp1_pt]).ok

\* treat_collision after walk, and the end of the for loop's body
TreatCollision ==
    /\ pc = "treat"
    /\ collisions_container' =
          IF is_potential_coll
          THEN LET r == send_2_A_and_B(buf0[inp0_pt], buf1[inp1_pt])
               IN  Append(collisions_container, <<r.inp_A, r.inp_B>>)
          ELSE collisions_container
    /\ n_dist_points' = n_dist_points + 1
    /\ pc' = "for"
    /\ UNCHANGED <<dpVars, dict, buf1, inp1_pt, out1_pt, chain_length1,
                   is_collision_found, n_collisions,
                   w_len0, w_len1, w_len, w_i, found_collision, result, wrapVars, histVars, extVars>>

SeqNext ==
    \/ WhileEnter
    \/ WhileExit
    \/ ForExit
    \/ ForDraw
    \/ (pc = "gdp" /\ GdpIter)
    \/ (pc = "gdp" /\ GdpExit)
    \/ ChainAbandoned
    \/ ChainStored
    \/ WalkAlign0
    \/ WalkAlign1
    \/ WalkStep
    \/ WalkEnd
    \/ TreatCollision

SpecSeq == SeqInit /\ [][SeqNext]_vars

(***************************************************************************)
(* Properties of the sequential engine                                     *)
(***************************************************************************)
\* C1: for a collision problem (g = f) the pair (x, y) that collision(Pb)
\* returns satisfies f(x) = f(y) and x # y.
C1_ReturnedCollision ==
    (pc = "returned" /\ Pb.f_eq_g)
    => /\ Pb.f[result[1]] = Pb.f[result[2]]
       /\ result[1] # result[2]

(***************************************************************************)
(* SpecWalk: treat_collision (and with it walk and send_2_A_and_B) called  *)
(* on drawn seeds and chain lengths                                        *)
(***************************************************************************)
WalkInit ==
    /\ WrapRest
    /\ ExtRest
    /\ HistRest
    /\ \E f \in SeqFam, g \in SeqFam, e \in Embeddings, eq \in BOOLEAN :
          /\ eq => g = f
          /\ Pb = [f |-> f, g |-> g, f_eq_g |-> eq, emb |-> e]
    /\ inp0_pt = 1
    /\ out0_pt = 2
    /\ DPFresh
    /\ dict = <<>>
    /\ buf1 = <<0, 0>>
    /\ inp1_pt = 1
    /\ out1_pt = 2
    /\ chain_length1 = 0
    /\ is_collision_found = FALSE
    /\ n_collisions = 0
    /\ n_dist_points = 0
    /\ collisions_container = <<>>
    /\ pc = "call"
    /\ w_len0 = 0
    /\ w_len1 = 0
    /\ w_len = 0
    /\ w_i = 0
    /\ found_collision = FALSE
    /\ result = <<0, 0>>

\* the caller's lines 491-504: the seeds are in *inp0_pt and *inp1_pt
TreatCall ==
    /\ pc = "call"
    /\ \E s0 \in CDom, s1 \in CDom, l0 \in 0..MaxWalkLen, l1 \in 0..MaxWalkLen,
          c \in {<<>>, <<<<0, 0>>>>} :
          /\ pre_inp0' = s0
          /\ buf0' = [buf0 EXCEPT ![inp0_pt] = s0]
          /\ buf1' = [buf1 EXCEPT ![inp1_pt] = s1]
          /\ chain_length0' = l0
          /\ chain_length1' = l1
          /\ w_len0' = l0
          /\ w_len1' = l1
          /\ w_len' = IF l0 < l1 THEN l0 ELSE l1
          /\ collisions_container' = c
          /\ h_inp1' = s1
          /\ h_container' = c
    /\ w_i' = 0
    /\ pc' = "walk"
    /\ UNCHANGED <<Pb, inp0_pt, out0_pt, difficulty, gd_pc, gd_i, found_dist,
                   cl_before, dict, inp1_pt, out1_pt, is_collision_found,
                   n_collisions, n_dist_points, found_collision, result,
                   h_attempts, h_version, wrapVars, extVars>>

\* back in the caller: the buffers keep the order the walk left them in
TreatReturn ==
    /\ pc = "for"
    /\ pre_inp0' = 0
    /\ buf0' = <<0, 0>>
    /\ buf1' = <<0, 0>>
    /\ chain_length0' = 0
    /\ chain_length1' = 0
    /\ w_len0' = 0
    /\ w_len1' = 0
    /\ w_len' = 0
    /\ w_i' = 0
    /\ found_collision' = FALSE
    /\ collisions_container' = <<>>
    /\ n_dist_points' = 0
    /\ h_inp1' = 0
    /\ h_container' = <<>>
    /\ pc' = "call"
    /\ UNCHANGED <<Pb, inp0_pt, out0_pt, difficulty, gd_pc, gd_i, found_dist,
                   cl_before, dict, inp1_pt, out1_pt, is_collision_found,
                   n_collisions, result, h_attempts, h_version, wrapVars, extVars>>

WalkNext ==
    \/ TreatCall
    \/ WalkAlign0
    \/ WalkAlign1
    \/ WalkStep
    \/ WalkEnd
    \/ TreatCollision
    \/ TreatReturn

SpecWalk == WalkInit /\ [][WalkNext]_vars

(***************************************************************************)
(* Properties of walk, send_2_A_and_B and treat_collision                  *)
(***************************************************************************)
\* the two chains walk was called on end at the same point
SameEnd == IterN(pre_inp0, chain_length0) = IterN(h_inp1, chain_length1)

\* how far walk moves the chain of inp0 (inp1) before the lockstep loop
Lead0 == IF chain_length0 > chain_length1 THEN chain_length0 - chain_length1 ELSE 0

Lead1 == IF chain_length1 > chain_length0 THEN chain_length1 - chain_length0 ELSE 0

\* what walk does, given that the two chains end at the same point
WalkContract ==
    /\ (pc = "walk" /\ w_len0 > w_len1) =>
          /\ buf0[inp0_pt] = IterN(pre_inp0, chain_length0 - w_len0)
          /\ buf1[inp1_pt] = h_inp1
          /\ w_len1 = chain_length1
    /\ (pc = "walk" /\ w_len0 < w_len1) =>
          /\ buf1[inp1_pt] = IterN(h_inp1, chain_length1 - w_len1)
          /\ buf0[inp0_pt] = pre_inp0
          /\ w_len0 = chain_length0
    /\ ((pc = "walk" /\ w_len0 = w_len1) \/ pc = "treat") =>
          /\ buf0[inp0_pt] = IterN(pre_inp0, Lead0 + w_i)
          /\ buf1[inp1_pt] = IterN(h_inp1, Lead1 + w_i)
          /\ \A j \in 1..w_i : IterN(pre_inp0, Lead0 + j) # IterN(h_inp1, Lead1 + j)
    /\ pc = "treat" =>
          /\ found_collision
          /\ w_i < w_len
          /\ buf0[out0_pt] = buf1[out1_pt]
          /\ buf0[out0_pt] = iterate_once(buf0[inp0_pt])
          /\ buf1[out1_pt] = iterate_once(buf1[inp1_pt])

Accepted == Len(collisions_container) = Len(h_container) + 1

\* C12: for a claw problem a collision with two distinct inputs is accepted
\* exactly when the two inputs select different functions, whichever chain
\* holds the f-side input; the pair appended is then (f-side, g-side) and
\* satisfies f(inp_A) = g(inp_B).
C12_ClawAccepted ==
    LET x == buf0[inp0_pt]
        y == buf1[inp1_pt]
        p == collisions_container[Len(collisions_container)]
    IN  (pc = "for" /\ ~Pb.f_eq_g /\ found_collision /\ x # y)
        => /\ Accepted <=> extract_1_bit(x) # extract_1_bit(y)
           /\ Accepted =>
                 /\ p = IF extract_1_bit(x) = 1
                        THEN <<send_C_to_A(x), send_C_to_B(y)>>
                        ELSE <<send_C_to_A(y), send_C_to_B(x)>>
                 /\ Pb.f[p[1]] = Pb.g[p[2]]

\* C13: if the two inputs at the merge are equal (Robin Hood) or walk found
\* no merge, treat_collision returns false and leaves the container as it
\* was; it appends exactly one pair exactly when it returns true.
C13_TreatRejects ==
    pc = "for" =>
       /\ (~found_collision \/ buf0[inp0_pt] = buf1[inp1_pt]) =>
             /\ ~is_potential_coll
             /\ collisions_container = h_container
       /\ is_potential_coll =>
             /\ Accepted
             /\ SubSeq(collisions_container, 1, Len(h_container)) = h_container
       /\ ~is_potential_coll => collisions_container = h_container

C13_Witness ==
    /\ pc = "for"
    /\ found_collision
    /\ buf0[inp0_pt] = buf1[inp1_pt]
    /\ pre_inp0 # h_inp1
    /\ Pb.f_eq_g
    /\ h_container # <<>>

(***************************************************************************)
(* CompactDict (include/mpi_naive_isend.hpp)                               *)
(*                                                                         *)
(* The dictionary keeps 32-bit keys of 64-bit digests.  The model keeps    *)
(* KeyBits-bit keys of 2*KeyBits-bit digests: the empty sentinel is the    *)
(* all-ones key (0xffffffff at KeyBits = 32) and the modulus is the        *)
(* sentinel minus 4 (0xfffffffb at KeyBits = 32).  Slots are numbered from *)
(* 0 as in the code; slot h is A[h + 1].  One loop iteration is one step.  *)
(***************************************************************************)
KeyBits == 3
\* the constructor is called with n_slots in 1..CDSlots
CDSlots == 4

Sentinel == 2^KeyBits - 1
KeyPrime == 2^KeyBits - 5

\* the digests and the values the callers pass
CDKeys == {0, 1, KeyPrime}
CDValues == {1, 2}

\* CompactDict::CompactDict: A.resize(n_slots, {0xffffffff, 0})
CompactDict(n) == [i \in 1..n |-> [k |-> Sentinel, v |-> 0]]

\* h = (key ^ (key >> 32)) % n_slots
HomeSlot(key, n) == NatXor(key, key \div 2^KeyBits) % n

\* key % 0xfffffffb
StoredKey(key) == key % KeyPrime

\* h += 1; if (h == n_slots) h = 0;
NextSlot(h, n) == IF h + 1 = n THEN 0 ELSE h + 1

\* cd_steps counts the loop iterations of the running operation; a loop
\* that never ends keeps running with the counter held at StepCap.
StepCap == 2 * Len(A) + 1
CountStep == IF cd_steps < StepCap THEN cd_steps + 1 ELSE cd_steps

\* the variables of the other components, which the dictionary leaves alone
cdOther == <<wrapVars, dpVars, seqVars, histVars, sdVars, nvVars, ptVars, kbVars>>

CDOtherRest ==
    /\ WrapRest
    /\ DPRest
    /\ SeqRest
    /\ HistRest
    /\ SdRest
    /\ NvRest
    /\ PtRest
    /\ KbRest

CDInit ==
    /\ \E n \in 1..CDSlots : A = CompactDict(n)
    /\ cd_pc = "idle"
    /\ cd_op = [name |-> "none", key |-> 0, value |-> 0]
    /\ cd_h = 0
    /\ cd_steps = 0
    /\ cd_keys = <<>>
    /\ cd_hist = <<>>
    /\ CDOtherRest

\* insert(key, value), line 36
CDInsertCall(key, value) ==
    /\ cd_pc = "idle"
    /\ cd_pc' = "insert"
    /\ cd_op' = [name |-> "insert", key |-> key, value |-> value]
    /\ cd_h' = HomeSlot(key, Len(A))
    /\ cd_steps' = 0
    /\ cd_keys' = <<>>
    /\ UNCHANGED <<A, cd_hist, cdOther>>

\* insert, lines 37-43: the slot is taken, try the next one
CDInsertStep ==
    /\ cd_pc = "insert"
    /\ A[cd_h + 1].k # Sentinel
    /\ cd_h' = NextSlot(cd_h, Len(A))
    /\ cd_steps' = CountStep
    /\ UNCHANGED <<A, cd_pc, cd_op, cd_keys, cd_hist, cdOther>>

\* mutant: the entry is written into the home slot, taken or not
CDInsertWrite_home ==
    /\ cd_pc = "insert"
    /\ A' = [A EXCEPT ![cd_h + 1] =
                [k |-> StoredKey(cd_op.key), v |-> cd_op.value]]
    /\ cd_hist' = Append(cd_hist,
                    [key |-> cd_op.key, value |-> cd_op.value, slot |-> cd_h])
    /\ cd_pc' = "idle"
    /\ UNCHANGED <<cd_op, cd_h, cd_steps, cd_keys, cdOther>>

\* insert, lines 38-39 and 44-45: the slot is empty, write the entry
CDInsertWrite ==
    /\ cd_pc = "insert"
    /\ A[cd_h + 1].k = Sentinel
    /\ A' = [A EXCEPT ![cd_h + 1] =
                [k |-> StoredKey(cd_op.key), v |-> cd_op.value]]
    /\ cd_hist' = Append(cd_hist,
                    [key |-> cd_op.key, value |-> cd_op.value, slot |-> cd_h])
    /\ cd_pc' = "idle"
    /\ UNCHANGED <<cd_op, cd_h, cd_steps, cd_keys, cdOther>>

\* probe(bigkey, keys), lines 52-53
CDProbeCall(bigkey) ==
    /\ cd_pc = "idle"
    /\ cd_pc' = "probe"
    /\ cd_op' = [name |-> "probe", key |-> bigkey, value |-> 0]
    /\ cd_h' = HomeSlot(bigkey, Len(A))
    /\ cd_steps' = 0
    /\ cd_keys' = <<>>
    /\ UNCHANGED <<A, cd_hist, cdOther>>

\* probe, lines 55-56: empty slot, return 0
CDProbeMiss ==
    /\ cd_pc = "probe"
    /\ A[cd_h + 1].k = Sentinel
    /\ cd_pc' = "idle"
    /\ UNCHANGED <<A, cd_op, cd_h, cd_steps, cd_keys, cd_hist, cdOther>>

\* probe, lines 57-58: first matching key, leave the first loop
CDProbeFound ==
    /\ cd_pc = "probe"
    /\ A[cd_h + 1].k # Sentinel
    /\ A[cd_h + 1].k = StoredKey(cd_op.key)
    /\ cd_pc' = "collect"
    /\ UNCHANGED <<A, cd_op, cd_h, cd_steps, cd_keys, cd_hist, cdOther>>

\* probe, lines 59-61: another key, try the next slot
CDProbeScan ==
    /\ cd_pc = "probe"
    /\ A[cd_h + 1].k # Sentinel
    /\ A[cd_h + 1].k # StoredKey(cd_op.key)
    /\ cd_h' = NextSlot(cd_h, Len(A))
    /\ cd_steps' = CountStep
    /\ UNCHANGED <<A, cd_pc, cd_op, cd_keys, cd_hist, cdOther>>

\* probe, lines 65-71: keys[nkeys] = A[h].v, next slot.  The model keeps
\* the first StepCap values written to keys[].
CDProbeCollect ==
    /\ cd_pc = "collect"
    /\ A[cd_h + 1].k = StoredKey(cd_op.key)
    /\ cd_keys' = IF Len(cd_keys) < StepCap
                    THEN Append(cd_keys, A[cd_h + 1].v)
                    ELSE cd_keys
    /\ cd_h' = NextSlot(cd_h, Len(A))
    /\ cd_steps' = CountStep
    /\ UNCHANGED <<A, cd_pc, cd_op, cd_hist, cdOther>>

\* probe, line 72: return nkeys
CDProbeReturn ==
    /\ cd_pc = "collect"
    /\ A[cd_h + 1].k # StoredKey(cd_op.key)
    /\ cd_pc' = "idle"
    /\ UNCHANGED <<A, cd_op, cd_h, cd_steps, cd_keys, cd_hist, cdOther>>

CDNext ==
    \/ \E key \in CDKeys, value \in CDValues :
           CDInsertCall(key, value)
    \/ CDInsertStep
    \/ CDInsertWrite
    \/ \E bigkey \in CDKeys : CDProbeCall(bigkey)
    \/ CDProbeMiss
    \/ CDProbeFound
    \/ CDProbeScan
    \/ CDProbeCollect
    \/ CDProbeReturn

SpecDict == CDInit /\ [][CDNext]_vars

\* the running operation has returned
Returned(name) == cd_pc = "idle" /\ cd_op.name = name

HasEmptySlot == \E i \in 1..Len(A) : A[i].k = Sentinel

\* C14: after any sequence of inserts that leaves at least one slot empty,
\* probe(z) returns every value that was inserted under key z.
C14_ProbeComplete ==
    (Returned("probe") /\ HasEmptySlot) =>
        \A j \in 1..Len(cd_hist) :
            cd_hist[j].key = cd_op.key =>
                \E i \in 1..Len(cd_keys) : cd_keys[i] = cd_hist[j].value

\* C15: every operation of the dictionary probes at most n_slots slots,
\* on a full table and on a table whose slots all hold the probed key too:
\* the loops of insert and probe never run more than n_slots iterations.
C15_BoundedProbe == cd_steps <= Len(A)

\* the slots from the home slot of key to slot, wrapping at n_slots
ProbeRun(key, slot) ==
    LET n == Len(A)
        home == HomeSlot(key, n)
    IN {(home + t) % n : t \in 0..((slot + n - home) % n)}

\* every completed insert is still in the slot it was written to, behind a
\* run of non-empty slots that starts at its home slot
C16_Reachable ==
    /\ \A j \in 1..Len(cd_hist) :
          /\ A[cd_hist[j].slot + 1] =
                [k |-> StoredKey(cd_hist[j].key), v |-> cd_hist[j].value]
          /\ A[cd_hist[j].slot + 1].k # Sentinel
          /\ \A h \in ProbeRun(cd_hist[j].key, cd_hist[j].slot) :
                A[h + 1].k # Sentinel
    /\ \A i, j \in 1..Len(cd_hist) :
          cd_hist[i].slot = cd_hist[j].slot => i = j
    /\ Cardinality({i \in 1..Len(A) : A[i].k # Sentinel}) = Len(cd_hist)

\* a step that changes the table changes one slot, which was empty
C16_WriteEmpty ==
    A' # A =>
        /\ cd_pc = "insert"
        /\ A[cd_h + 1].k = Sentinel
        /\ A'[cd_h + 1].k = StoredKey(cd_op.key)
        /\ A'[cd_h + 1].k # Sentinel
        /\ \A i \in 1..Len(A) : i # cd_h + 1 => A'[i] = A[i]

\* C16: every stored entry is reachable from the home slot of its key
\* through a contiguous run of non-empty slots, insert writes only to an
\* empty slot, and the stored key never equals the empty sentinel.
C16_TableInvariant == []C16_Reachable /\ [][C16_WriteEmpty]_vars

\* an entry that was pushed past the end of the table into slot 0
C16_Witness ==
    /\ cd_pc = "idle"
    /\ \E j \in 1..Len(cd_hist) :
          /\ cd_hist[j].slot < HomeSlot(cd_hist[j].key, Len(A))
          /\ cd_hist[j].key >= KeyPrime
    /\ Len(cd_hist) >= 3

(***************************************************************************)
(* Routing of a value to a receiver (include/mpi/pcs_sender.hpp 56-57,     *)
(* include/mpi_naive_isend.hpp 105-106), on u64 values as sets of one-bits *)
(***************************************************************************)
\* 0xdeadbeef
DeadBeef == {0, 1, 2, 3, 5, 6, 7, 9, 10, 11, 12, 13, 15, 16, 18, 19, 21, 23,
             25, 26, 27, 28, 30, 31}

\* 0x7fffffff
Mersenne31 == 2147483647

\* the number whose one-bits are x, for x below bit 31
RECURSIVE BitsVal(_)
BitsVal(x) ==
    IF x = {} THEN 0
    ELSE LET p == CHOOSE q \in x : TRUE IN 2^p + BitsVal(x \ {p})

\* the one-bits of the number v < 2^31
NatBits(v) == {p \in 0..30 : (v \div 2^p) % 2 = 1}

\* the u64 product x * y
Mul64(x, y) == {p \in 0..(U64Bits - 1) : MulBit(x, y, p) = 1}

\* (a + b) % 0x7fffffff for a, b <= 0x7fffffff
AddMod31(a, b) ==
    LET a1 == IF a = Mersenne31 THEN 0 ELSE a
        b1 == IF b = Mersenne31 THEN 0 ELSE b
    IN  IF a1 >= Mersenne31 - b1 THEN a1 - (Mersenne31 - b1) ELSE a1 + b1

\* x % 0x7fffffff: 2^31 = 1 modulo 0x7fffffff, so x is congruent to the sum
\* of its three 31-bit digits
Mod31(x) ==
    AddMod31(AddMod31(BitsVal({p \in x : p < 31}),
                      BitsVal(Shr({p \in x : p < 62}, 31))),
             BitsVal(Shr(x, 62)))

\* mutant: the hash is not reduced modulo 0x7fffffff
dp_hash_unreduced(z) == Mul64(z, DeadBeef)

\* u64 hash = (z * 0xdeadbeef) % 0x7fffffff
dp_hash(z) == NatBits(Mod31(Mul64(z, DeadBeef)))

\* (int) x: the low 32 bits of x as a two's complement number
IntOf(x) ==
    IF (IntBits - 1) \in x
      THEN (BitsVal({p \in x : p < IntBits - 1}) - Mersenne31) - 1
      ELSE BitsVal({p \in x : p < IntBits - 1})

\* a % b on int: the quotient is truncated towards zero
CRem(a, b) == IF a >= 0 THEN a % b ELSE 0 - ((0 - a) % b)

\* int target_recv = ((int) hash) % params.n_recv
target_recv(z, n_recv) == CRem(IntOf(dp_hash(z)), n_recv)

(***************************************************************************)
(* sender (include/mpi/pcs_sender.hpp)                                     *)
(*                                                                         *)
(* The controller and generate_dist_point are the environment: the         *)
(* controller broadcasts [seed, stop] and answers a CALLHOME with an       *)
(* assignment, generate_dist_point fails or returns some end value.        *)
(***************************************************************************)
\* up to MaxSend senders and MaxRecv receivers
MaxSend == 2
MaxRecv == 2
\* Pb.mask has up to SdBits bits
SdBits == 2
\* a sender starts up to MaxChains chains in one version
MaxChains == 2
\* the controller makes up to MaxBcast broadcasts
MaxBcast == 2
\* the sender calls home when n_dp % PingEvery = PingEvery - 1 (10000 in the
\* code) and the ping delay has passed
PingEvery == 2
\* a send buffer is transmitted when it holds BufCap triples
\* (params.buffer_capacity)
BufCap == 2

\* msg[1] of the broadcasts: 1 and 2^64 - 1
SdSeeds == {{0}, 0..(U64Bits - 1)}

\* the end values generate_dist_point returns: 1 and 2^64 - 1
SdEnds == {{0}, 0..(U64Bits - 1)}

Ranks == 0..(sd_par.n_send - 1)

\* target_recv of every end value and every number of receivers
Routes == [z \in SdEnds |-> [nr \in 1..MaxRecv |-> target_recv(z, nr)]]

\* the u64 sum x + d for a number 0 <= d < 256
AddSmall(x, d) ==
    LET sum == BitsVal({p \in x : p < 8}) + d
        high == {p \in x : p >= 8}
        zeros == {p \in 8..(U64Bits - 1) : p \notin x}
        z == CHOOSE q \in zeros : \A q2 \in zeros : q <= q2
    IN  {p \in NatBits(sum) : p < 8} \cup
        (IF sum < 256 THEN high
         ELSE IF zeros = {} THEN {}
         ELSE {p \in high : p > z} \cup {z})

\* u64 start = j & Pb.mask, as a number
ChainStart(j) == BitsVal(And(j, Mask(sd_par.n)))

\* the length generate_dist_point returns with each end value
SdLen(end) == IF end = {0} THEN 1 ELSE 2

\* SendBuffers sendbuf(...): one empty buffer per receiver
EmptyBuffers == [t \in 0..(sd_par.n_recv - 1) |-> <<>>]

RECURSIVE SumLen(_, _)
SumLen(bufs, t) ==
    IF t < 0 THEN 0 ELSE Len(bufs[t]) + SumLen(bufs, t - 1)

\* how many triples sendbuf of local_rank r holds
Buffered(r) == SumLen(sd_buf[r], sd_par.n_recv - 1)

\* sendbuf's buffer for receiver target
BufferFor(r, target) ==
    IF target \in DOMAIN sd_buf[r] THEN sd_buf[r][target] ELSE <<>>

NoCalls == [calls |-> 0, assigns |-> 0, reported |-> 0]

sdOther == <<wrapVars, dpVars, seqVars, histVars, cdVars, nvVars, ptVars, kbVars>>

SdOtherRest ==
    /\ WrapRest
    /\ DPRest
    /\ SeqRest
    /\ HistRest
    /\ CDRest
    /\ NvRest
    /\ PtRest
    /\ KbRest

SdInit ==
    /\ \E ns \in 1..MaxSend, nr \in 1..MaxRecv, n \in 1..SdBits :
          sd_par = [n_send |-> ns, n_recv |-> nr, n |-> n]
    /\ bcasts = <<>>
    /\ sd_pc = [r \in Ranks |-> "bcast"]
    /\ sd_ep = [r \in Ranks |-> 0]
    /\ sd_j = [r \in Ranks |-> {}]
    /\ sd_ndp = [r \in Ranks |-> 0]
    /\ sd_starts = [r \in Ranks |-> <<>>]
    /\ sd_push = [r \in Ranks |-> [end |-> {}, target |-> 0, set |-> FALSE]]
    /\ sd_busy = [r \in Ranks |-> FALSE]
    /\ sd_assign = [r \in Ranks |-> "none"]
    /\ sd_buf = [r \in Ranks |-> EmptyBuffers]
    /\ sd_sent = [r \in Ranks |-> 0]
    /\ sd_routed = [r \in Ranks |-> 0]
    /\ sd_home = [r \in Ranks |-> NoCalls]
    /\ SdOtherRest

\* the controller broadcasts (i, root_seed, stop); a stop is its last one
CtrlBcast ==
    \E seed \in SdSeeds, stop \in {0, 1} :
        /\ Len(bcasts) < MaxBcast
        /\ \A b \in 1..Len(bcasts) : bcasts[b].stop = 0
        /\ bcasts' = Append(bcasts, [seed |-> seed, stop |-> stop])
        /\ UNCHANGED <<sd_par, sd_pc, sd_ep, sd_j, sd_ndp, sd_starts, sd_push,
                       sd_busy, sd_assign, sd_buf, sd_sent, sd_routed, sd_home,
                       sdOther>>

\* mutant: a stop broadcast is treated like the end of a version
SdBcastStop_reduce ==
    \E r \in Ranks :
        /\ sd_pc[r] = "bcast"
        /\ sd_ep[r] < Len(bcasts)
        /\ bcasts[sd_ep[r] + 1].stop # 0
        /\ sd_ep' = [sd_ep EXCEPT ![r] = @ + 1]
        /\ sd_busy' = [sd_busy EXCEPT ![r] = FALSE]
        /\ sd_pc' = [sd_pc EXCEPT ![r] = "reduce"]
        /\ UNCHANGED <<sd_par, bcasts, sd_j, sd_ndp, sd_starts, sd_push,
                       sd_assign, sd_buf, sd_sent, sd_routed, sd_home,
                       sdOther>>

\* lines 20-22: MPI_Bcast, msg[2] != 0, return
SdBcastStop ==
    \E r \in Ranks :
        /\ sd_pc[r] = "bcast"
        /\ sd_ep[r] < Len(bcasts)
        /\ bcasts[sd_ep[r] + 1].stop # 0
        /\ sd_ep' = [sd_ep EXCEPT ![r] = @ + 1]
        /\ sd_busy' = [sd_busy EXCEPT ![r] = FALSE]
        /\ sd_pc' = [sd_pc EXCEPT ![r] = "returned"]
        /\ UNCHANGED <<sd_par, bcasts, sd_j, sd_ndp, sd_starts, sd_push,
                       sd_assign, sd_buf, sd_sent, sd_routed, sd_home,
                       sdOther>>

\* lines 20-29: MPI_Bcast, msg[2] == 0, n_dp = 0, a new sendbuf,
\* j = msg[1] + 3*local_rank
SdBcastGo ==
    \E r \in Ranks :
        /\ sd_pc[r] = "bcast"
        /\ sd_ep[r] < Len(bcasts)
        /\ bcasts[sd_ep[r] + 1].stop = 0
        /\ sd_ep' = [sd_ep EXCEPT ![r] = @ + 1]
        /\ sd_busy' = [sd_busy EXCEPT ![r] = FALSE]
        /\ sd_ndp' = [sd_ndp EXCEPT ![r] = 0]
        /\ sd_j' = [sd_j EXCEPT ![r] = AddSmall(bcasts[sd_ep[r] + 1].seed, 3 * r)]
        /\ sd_starts' = [sd_starts EXCEPT ![r] = <<>>]
        /\ sd_assign' = [sd_assign EXCEPT ![r] = "none"]
        /\ sd_buf' = [sd_buf EXCEPT ![r] = EmptyBuffers]
        /\ sd_sent' = [sd_sent EXCEPT ![r] = 0]
        /\ sd_routed' = [sd_routed EXCEPT ![r] = 0]
        /\ sd_home' = [sd_home EXCEPT ![r] = NoCalls]
        /\ sd_pc' = [sd_pc EXCEPT ![r] = "loop"]
        /\ UNCHANGED <<sd_par, bcasts, sd_push, sdOther>>

\* lines 32-38: n_dp % 10000 == 9999 and the ping delay has passed:
\* mutant: n_dp is not reset after the report
SdCallHome_keep ==
    \E r \in Ranks :
        /\ sd_pc[r] = "loop"
        /\ sd_ndp[r] % PingEvery = PingEvery - 1
        /\ sd_home' = [sd_home EXCEPT ![r] =
                         [@ EXCEPT !.calls = @ + 1, !.reported = @ + sd_ndp[r]]]
        /\ sd_ndp' = sd_ndp
        /\ sd_busy' = [sd_busy EXCEPT ![r] = TRUE]
        /\ sd_pc' = [sd_pc EXCEPT ![r] = "assign"]
        /\ UNCHANGED <<sd_par, bcasts, sd_ep, sd_j, sd_starts, sd_push,
                       sd_assign, sd_buf, sd_sent, sd_routed,
                       sdOther>>

\* MPI_Send of n_dp, n_dp = 0, MPI_Recv of the assignment
SdCallHome ==
    \E r \in Ranks :
        /\ sd_pc[r] = "loop"
        /\ sd_ndp[r] % PingEvery = PingEvery - 1
        /\ sd_home' = [sd_home EXCEPT ![r] =
                         [@ EXCEPT !.calls = @ + 1, !.reported = @ + sd_ndp[r]]]
        /\ sd_ndp' = [sd_ndp EXCEPT ![r] = 0]
        /\ sd_busy' = [sd_busy EXCEPT ![r] = TRUE]
        /\ sd_pc' = [sd_pc EXCEPT ![r] = "assign"]
        /\ UNCHANGED <<sd_par, bcasts, sd_ep, sd_j, sd_starts, sd_push,
                       sd_assign, sd_buf, sd_sent, sd_routed,
                       sdOther>>

\* line 32: no call home this time (n_dp, or the ping delay has not passed)
SdNoCallHome ==
    \E r \in Ranks :
        /\ sd_pc[r] = "loop"
        /\ sd_pc' = [sd_pc EXCEPT ![r] = "chain"]
        /\ UNCHANGED <<sd_par, bcasts, sd_ep, sd_j, sd_ndp, sd_starts, sd_push,
                       sd_busy, sd_assign, sd_buf, sd_sent, sd_routed, sd_home,
                       sdOther>>

\* mutant: break without sendbuf.flush()
SdNewVersion_noflush ==
    \E r \in Ranks :
        /\ sd_pc[r] = "assign"
        /\ sd_assign' = [sd_assign EXCEPT ![r] = "NEW_VERSION"]
        /\ sd_home' = [sd_home EXCEPT ![r] = [@ EXCEPT !.assigns = @ + 1]]
        /\ UNCHANGED <<sd_buf, sd_sent>>
        /\ sd_pc' = [sd_pc EXCEPT ![r] = "reduce"]
        /\ UNCHANGED <<sd_par, bcasts, sd_ep, sd_j, sd_ndp, sd_starts, sd_push,
                       sd_busy, sd_routed, sdOther>>

\* lines 39-42: assignment == NEW_VERSION: sendbuf.flush(), break
SdNewVersion ==
    \E r \in Ranks :
        /\ sd_pc[r] = "assign"
        /\ sd_assign' = [sd_assign EXCEPT ![r] = "NEW_VERSION"]
        /\ sd_home' = [sd_home EXCEPT ![r] = [@ EXCEPT !.assigns = @ + 1]]
        /\ sd_buf' = [sd_buf EXCEPT ![r] = EmptyBuffers]
        /\ sd_sent' = [sd_sent EXCEPT ![r] = @ + Buffered(r)]
        /\ sd_pc' = [sd_pc EXCEPT ![r] = "reduce"]
        /\ UNCHANGED <<sd_par, bcasts, sd_ep, sd_j, sd_ndp, sd_starts, sd_push,
                       sd_busy, sd_routed, sdOther>>

\* line 39: any other assignment, go on with the next chain
SdKeepGoing ==
    \E r \in Ranks :
        /\ sd_pc[r] = "assign"
        /\ sd_assign' = [sd_assign EXCEPT ![r] = "KEEP_GOING"]
        /\ sd_home' = [sd_home EXCEPT ![r] = [@ EXCEPT !.assigns = @ + 1]]
        /\ sd_pc' = [sd_pc EXCEPT ![r] = "chain"]
        /\ UNCHANGED <<sd_par, bcasts, sd_ep, sd_j, sd_ndp, sd_starts, sd_push,
                       sd_busy, sd_buf, sd_sent, sd_routed,
                       sdOther>>

\* mutant: the next chain starts where this one did
SdChainFail_samej ==
    \E r \in Ranks :
        /\ sd_pc[r] = "chain"
        /\ Len(sd_starts[r]) < MaxChains
        /\ sd_starts' = [sd_starts EXCEPT ![r] = Append(@, ChainStart(sd_j[r]))]
        /\ sd_busy' = [sd_busy EXCEPT ![r] = TRUE]
        /\ sd_pc' = [sd_pc EXCEPT ![r] = "loop"]
        /\ UNCHANGED <<sd_par, bcasts, sd_ep, sd_j, sd_ndp, sd_push, sd_assign,
                       sd_buf, sd_sent, sd_routed, sd_home,
                       sdOther>>

\* lines 46-51 and 29: start = j & mask, generate_dist_point fails,
\* continue with j += 3*n_send
SdChainFail ==
    \E r \in Ranks :
        /\ sd_pc[r] = "chain"
        /\ Len(sd_starts[r]) < MaxChains
        /\ sd_starts' = [sd_starts EXCEPT ![r] = Append(@, ChainStart(sd_j[r]))]
        /\ sd_j' = [sd_j EXCEPT ![r] = AddSmall(@, 3 * sd_par.n_send)]
        /\ sd_busy' = [sd_busy EXCEPT ![r] = TRUE]
        /\ sd_pc' = [sd_pc EXCEPT ![r] = "loop"]
        /\ UNCHANGED <<sd_par, bcasts, sd_ep, sd_ndp, sd_push, sd_assign,
                       sd_buf, sd_sent, sd_routed, sd_home,
                       sdOther>>

\* lines 46-58 and 29: start = j & mask, generate_dist_point returns
\* (end, len), n_dp += 1, push3 to target_recv, j += 3*n_send
SdChainDP ==
    \E r \in Ranks, end \in SdEnds :
      LET target == Routes[end][sd_par.n_recv]
          start == ChainStart(sd_j[r])
          full == Append(BufferFor(r, target),
                         [ep |-> sd_ep[r], start |-> start, end |-> end,
                          len |-> SdLen(end)])
      IN
        /\ sd_pc[r] = "chain"
        /\ Len(sd_starts[r]) < MaxChains
        /\ sd_starts' = [sd_starts EXCEPT ![r] = Append(@, ChainStart(sd_j[r]))]
        /\ sd_ndp' = [sd_ndp EXCEPT ![r] = @ + 1]
        /\ sd_routed' = [sd_routed EXCEPT ![r] = @ + 1]
        /\ IF Len(full) = BufCap
           THEN /\ sd_buf' = [sd_buf EXCEPT ![r][target] = <<>>]
                /\ sd_sent' = [sd_sent EXCEPT ![r] = @ + BufCap]
           ELSE /\ sd_buf' = [sd_buf EXCEPT ![r][target] = full]
                /\ sd_sent' = sd_sent
        /\ sd_push' = [sd_push EXCEPT ![r] =
                         [end |-> end, target |-> target,
                          set |-> TRUE]]
        /\ sd_j' = [sd_j EXCEPT ![r] = AddSmall(@, 3 * sd_par.n_send)]
        /\ sd_busy' = [sd_busy EXCEPT ![r] = TRUE]
        /\ sd_pc' = [sd_pc EXCEPT ![r] = "loop"]
        /\ UNCHANGED <<sd_par, bcasts, sd_ep, sd_assign, sd_home, sdOther>>

\* lines 63-75: the six MPI_Reduce, then back to the broadcast
SdReduce ==
    \E r \in Ranks :
        /\ sd_pc[r] = "reduce"
        /\ sd_busy' = [sd_busy EXCEPT ![r] = TRUE]
        /\ sd_pc' = [sd_pc EXCEPT ![r] = "bcast"]
        /\ UNCHANGED <<sd_par, bcasts, sd_ep, sd_j, sd_ndp, sd_starts, sd_push,
                       sd_assign, sd_buf, sd_sent, sd_routed, sd_home,
                       sdOther>>

SdNext ==
    \/ CtrlBcast
    \/ SdBcastStop
    \/ SdBcastGo
    \/ SdCallHome
    \/ SdNoCallHome
    \/ SdNewVersion
    \/ SdKeepGoing
    \/ SdChainFail
    \/ SdChainDP
    \/ SdReduce

SpecSender == SdInit /\ [][SdNext]_vars

\* (z * 0xdeadbeef mod 2^64) mod 0x7fffffff of every end value, as a number
Residues == [z \in SdEnds |-> Mod31(Mul64(z, DeadBeef))]

\* C17: the receiver index ((z * 0xdeadbeef mod 2^64) mod 0x7fffffff) mod
\* n_recv of a pushed end value z lies in [0, n_recv) and is a function of z
\* and n_recv alone: senders that push equal end values push them to the
\* same receiver.
C17_Routing ==
    \A r \in Ranks :
        sd_push[r].set =>
            /\ sd_push[r].target \in 0..(sd_par.n_recv - 1)
            /\ sd_push[r].target =
                  Residues[sd_push[r].end] % sd_par.n_recv
            /\ \A r2 \in Ranks :
                  (sd_push[r2].set /\ sd_push[r2].end = sd_push[r].end) =>
                      sd_push[r2].target = sd_push[r].target

\* two senders have pushed the same end value to receiver 1, and the other
\* end value goes to receiver 0
C17_Witness ==
    /\ sd_par.n_send = 2
    /\ sd_par.n_recv = 2
    /\ sd_push[0].set
    /\ sd_push[1].set
    /\ sd_push[0].end = sd_push[1].end
    /\ sd_push[0].target = 1
    /\ \E z \in SdEnds : Routes[z][2] = 0

\* the chains started so far: <<local_rank, k>>, k counted from 0
Chains == {c \in Ranks \X (0..(MaxChains - 1)) : c[2] < Len(sd_starts[c[1]])}

StartOf(c) == sd_starts[c[1]][c[2] + 1]

\* the senders of c and d work on the same broadcast
SameVersion(c, d) == sd_ep[c[1]] = sd_ep[d[1]]

\* the position of chain c among the chains of all senders
GlobalIndex(c) == c[1] + sd_par.n_send * c[2]

\* C18 as stated: within one version the chain starts j & mask of different
\* senders are pairwise different and no sender uses a start twice, for any
\* number of senders and of chains.
C18_DisjointStarts_Original ==
    \A c, d \in Chains :
        (c # d /\ SameVersion(c, d)) => StartOf(c) # StartOf(d)

\* C18: within one version the chain starts j & mask, with
\* j = seed_base + 3*rank + k*3*n_send and mask = 2^n - 1, are pairwise
\* different, across senders and within a sender, for the chains whose
\* rank + k*n_send is below 2^n.
C18_DisjointStarts ==
    \A c, d \in Chains :
        (/\ c # d
         /\ SameVersion(c, d)
         /\ GlobalIndex(c) < 2^sd_par.n
         /\ GlobalIndex(d) < 2^sd_par.n) => StartOf(c) # StartOf(d)

\* two senders have started two chains each from the seed 2^64 - 1, so that
\* j wraps, and the four starts fill the domain of 2^2 values
C18_Witness ==
    /\ sd_par.n_send = 2
    /\ sd_par.n = 2
    /\ Len(sd_starts[0]) = 2
    /\ Len(sd_starts[1]) = 2
    /\ sd_ep[0] = 1
    /\ sd_ep[1] = 1
    /\ bcasts[1].seed = 0..(U64Bits - 1)
    /\ {StartOf(c) : c \in Chains} = 0..3

\* a sender has returned only on a stop broadcast, the last thing it did
returnedOnStop(r) ==
    sd_pc[r] = "returned" =>
        /\ sd_ep[r] >= 1
        /\ bcasts[sd_ep[r]].stop # 0
        /\ ~sd_busy[r]

\* a sender is outside the chain loop of a version it has begun only after
\* a NEW_VERSION assignment
leftOnNewVersion(r) ==
    (sd_pc[r] \in {"reduce", "bcast"} /\ sd_ep[r] >= 1) =>
        sd_assign[r] = "NEW_VERSION"

\* what one step may do to sender r
SenderStep(r) ==
    \* it returns only from the broadcast, and only on stop
    /\ (sd_pc[r] # "returned" /\ sd_pc'[r] = "returned") =>
          /\ sd_pc[r] = "bcast"
          /\ sd_ep'[r] = sd_ep[r] + 1
          /\ bcasts[sd_ep'[r]].stop # 0
          /\ sd_starts'[r] = sd_starts[r]
          /\ sd_push'[r] = sd_push[r]
          /\ ~sd_busy'[r]
    \* once returned it does nothing more
    /\ sd_pc[r] = "returned" =>
          /\ sd_pc'[r] = "returned"
          /\ sd_starts'[r] = sd_starts[r]
          /\ sd_push'[r] = sd_push[r]
          /\ ~sd_busy'[r]
    \* it leaves the chain loop only on NEW_VERSION
    /\ (sd_pc[r] \in {"loop", "assign", "chain"}
          /\ sd_pc'[r] \notin {"loop", "assign", "chain"}) =>
          /\ sd_pc[r] = "assign"
          /\ sd_assign'[r] = "NEW_VERSION"
          /\ sd_pc'[r] = "reduce"
    \* a stop broadcast made while it is in the loop does not move it
    /\ (sd_pc[r] \in {"loop", "assign", "chain"} /\ bcasts' # bcasts) =>
          sd_pc'[r] = sd_pc[r]

\* C19: a sender terminates only by receiving a broadcast whose stop flag
\* is not zero, and then returns at once without walking a chain or sending
\* a batch, a CALLHOME or a reduction; inside a version it leaves the chain
\* loop only after a NEW_VERSION assignment, never because of a stop.
C19_SenderControl ==
    /\ [](\A r \in Ranks : returnedOnStop(r) /\ leftOnNewVersion(r))
    /\ [][\A r \in Ranks : SenderStep(r)]_vars

\* one sender has returned on the stop broadcast while the other, still in
\* the chain loop of the version before, has started a chain after the stop
C19_Witness ==
    /\ sd_par.n_send = 2
    /\ sd_pc[0] = "returned"
    /\ sd_ep[0] = 2
    /\ sd_pc[1] = "loop"
    /\ sd_ep[1] = 1
    /\ Len(bcasts) = 2
    /\ bcasts[2].stop = 1
    /\ Len(sd_starts[1]) = 2

(***************************************************************************)
(* naive_mpi_claw_search (include/mpi_naive_isend.hpp)                     *)
(*                                                                         *)
(* Senders and receivers are separate processes.  A pair (x, z) pushed by  *)
(* a sender reaches its receiver later, in order with the other pairs of   *)
(* the same sender and in any order with those of other senders.  A        *)
(* receiver handles one pair per step with the whole insert or probe.      *)
(***************************************************************************)
\* Pb.n
NvBits == 2

\* u64 N = 1ull << Pb.n
NvN == 2^NvBits

NvDom == 0..(NvN - 1)

\* the user's f and g: identity, low bit, twice the low bit, N - 1 - x, and
\* N - 1 everywhere but at N - 1
NvFam ==
    { [x \in NvDom |-> x],
      [x \in NvDom |-> x % 2],
      [x \in NvDom |-> 2 * (x % 2)],
      [x \in NvDom |-> NvN - 1 - x],
      [x \in NvDom |-> IF x = NvN - 1 THEN 0 ELSE NvN - 1] }

\* the user's is_good_pair: every pair, or the pair (2, 0) alone
NvGood == {NvDom \X NvDom, {<<2, 0>>}}

Senders == 0..(nv_par.n_send - 1)

Receivers == 0..(nv_par.n_recv - 1)

\* lo = local_rank * N / n_send, hi = (local_rank + 1) * N / n_send
lo(s) == (s * NvN) \div nv_par.n_send

hi(s) == ((s + 1) * NvN) \div nv_par.n_send

\* (1.25 * N) / n_recv, converted to u64
DictSlots(n_recv) == (5 * NvN) \div (4 * n_recv)

\* target of every value z and every number of receivers
NvRoutes ==
    [z \in NvDom |-> [nr \in 1..MaxRecv |-> target_recv(NatBits(z), nr)]]

\* CompactDict::insert, lines 36-43: the slot the loop stops at.  After
\* n_slots taken slots the loop is back where it began and never ends: -1.
RECURSIVE InsertSlot(_, _, _)
InsertSlot(T, h, tries) ==
    IF tries = Len(T) THEN 0 - 1
    ELSE IF T[h + 1].k = Sentinel THEN h
    ELSE InsertSlot(T, NextSlot(h, Len(T)), tries + 1)

\* CompactDict::probe, lines 54-62: the slot of the first matching key, -1
\* at an empty slot (return 0), -2 when the loop never ends
RECURSIVE ProbeFirst(_, _, _, _)
ProbeFirst(T, key, h, tries) ==
    IF tries = Len(T) THEN 0 - 2
    ELSE IF T[h + 1].k = Sentinel THEN 0 - 1
    ELSE IF T[h + 1].k = key THEN h
    ELSE ProbeFirst(T, key, NextSlot(h, Len(T)), tries + 1)

\* CompactDict::probe, lines 65-71: the values collected from slot h on;
\* when all slots hold the key the loop never ends
RECURSIVE ProbeCollect(_, _, _, _)
ProbeCollect(T, key, h, acc) ==
    IF Len(acc) = Len(T) THEN [hang |-> TRUE, keys |-> acc]
    ELSE IF T[h + 1].k = key
      THEN ProbeCollect(T, key, NextSlot(h, Len(T)), Append(acc, T[h + 1].v))
    ELSE [hang |-> FALSE, keys |-> acc]

\* dict.probe(z, keys)
ProbeKeys(T, z) ==
    LET first == ProbeFirst(T, StoredKey(z), HomeSlot(z, Len(T)), 0)
    IN  IF first = 0 - 2 THEN [hang |-> TRUE, keys |-> <<>>]
        ELSE IF first = 0 - 1 THEN [hang |-> FALSE, keys |-> <<>>]
        ELSE ProbeCollect(T, StoredKey(z), first, <<>>)

\* lines 149-152: how many of the keys probed are counted by
\* ctr.collision_failure()
Failures(keys, z) ==
    Cardinality({i \in 1..Len(keys) : nv_par.f[keys[i]] # z})

\* mutant: the loop over the keys ends at the first false positive
GoodPairs_break(keys, x, z) ==
    LET bad == {i \in 1..Len(keys) : nv_par.f[keys[i]] # z}
        stop == IF bad = {} THEN Len(keys) + 1
                ELSE CHOOSE i \in bad : \A j \in bad : i <= j
        Keep(y) == <<y, x>> \in nv_par.good
        kept == SelectSeq(SubSeq(keys, 1, stop - 1), Keep)
    IN  [i \in 1..Len(kept) |-> <<kept[i], x>>]

\* lines 147-158: the pairs (y, x) pushed to result for the keys probed
GoodPairs(keys, x, z) ==
    LET Keep(y) == nv_par.f[y] = z /\ <<y, x>> \in nv_par.good
        kept == SelectSeq(keys, Keep)
    IN  [i \in 1..Len(kept) |-> <<kept[i], x>>]

\* no process is at MPI_Barrier
NoneArrived == [s |-> [q \in Senders |-> FALSE], r |-> [q \in Receivers |-> FALSE]]

nvOther == <<wrapVars, dpVars, seqVars, histVars, cdVars, sdVars, ptVars, kbVars>>

NvInit ==
    /\ \E ns \in 1..MaxSend, nr \in 1..MaxRecv, f \in NvFam, g \in NvFam,
          good \in NvGood :
          nv_par = [n_send |-> ns, n_recv |-> nr, f |-> f, g |-> g,
                    good |-> good]
    /\ nv_phase = 0
    /\ nv_x = [s \in Senders |-> lo(s)]
    /\ nv_chan = [c \in Senders \X Receivers |-> <<>>]
    /\ nv_dict = [r \in Receivers |-> CompactDict(DictSlots(nv_par.n_recv))]
    /\ nv_result = [r \in Receivers |-> <<>>]
    /\ nv_hung = [r \in Receivers |-> FALSE]
    /\ nv_ret = <<>>
    /\ nv_ctr = [r \in Receivers |-> [failure |-> 0, found |-> 0]]
    /\ nv_arr = NoneArrived
    /\ WrapRest
    /\ DPRest
    /\ SeqRest
    /\ HistRest
    /\ CDRest
    /\ SdRest
    /\ PtRest
    /\ KbRest

\* lines 103-112: z = f(x) or g(x), push2(x, z, target)
NvSend ==
    \E s \in Senders :
        /\ nv_phase < 2
        /\ nv_x[s] < hi(s)
        /\ LET x == nv_x[s]
               z == IF nv_phase = 0 THEN nv_par.f[x] ELSE nv_par.g[x]
               target == NvRoutes[z][nv_par.n_recv]
           IN  nv_chan' = [nv_chan EXCEPT ![<<s, target>>] = Append(@, <<x, z>>)]
        /\ nv_x' = [nv_x EXCEPT ![s] = @ + 1]
        /\ UNCHANGED <<nv_par, nv_phase, nv_dict, nv_result, nv_hung, nv_ret,
                       nv_ctr, nv_arr, nvOther>>

\* lines 130-142, phase 0: dict.insert(z, x)
NvInsert ==
    \E s \in Senders, r \in Receivers :
        /\ nv_phase = 0
        /\ ~nv_hung[r]
        /\ nv_chan[<<s, r>>] # <<>>
        /\ LET x == Head(nv_chan[<<s, r>>])[1]
               z == Head(nv_chan[<<s, r>>])[2]
               T == nv_dict[r]
               h == InsertSlot(T, HomeSlot(z, Len(T)), 0)
           IN  /\ h >= 0
               /\ nv_dict' = [nv_dict EXCEPT ![r] =
                     [T EXCEPT ![h + 1] = [k |-> StoredKey(z), v |-> x]]]
        /\ nv_chan' = [nv_chan EXCEPT ![<<s, r>>] = Tail(@)]
        /\ UNCHANGED <<nv_par, nv_phase, nv_x, nv_result, nv_hung, nv_ret,
                       nv_ctr, nv_arr, nvOther>>

\* lines 130-142, phase 0: dict.insert(z, x) into a full table never returns
NvInsertHang ==
    \E s \in Senders, r \in Receivers :
        /\ nv_phase = 0
        /\ ~nv_hung[r]
        /\ nv_chan[<<s, r>>] # <<>>
        /\ LET z == Head(nv_chan[<<s, r>>])[2]
               T == nv_dict[r]
           IN  InsertSlot(T, HomeSlot(z, Len(T)), 0) < 0
        /\ nv_hung' = [nv_hung EXCEPT ![r] = TRUE]
        /\ nv_chan' = [nv_chan EXCEPT ![<<s, r>>] = Tail(@)]
        /\ UNCHANGED <<nv_par, nv_phase, nv_x, nv_dict, nv_result, nv_ret,
                       nv_ctr, nv_arr, nvOther>>

\* lines 130-158, phase 1: dict.probe(z, keys), then the test of each key
NvProbe ==
    \E s \in Senders, r \in Receivers :
        /\ nv_phase = 1
        /\ ~nv_hung[r]
        /\ nv_chan[<<s, r>>] # <<>>
        /\ LET x == Head(nv_chan[<<s, r>>])[1]
               z == Head(nv_chan[<<s, r>>])[2]
               p == ProbeKeys(nv_dict[r], z)
           IN  /\ ~p.hang
               /\ nv_result' = [nv_result EXCEPT ![r] =
                                    @ \o GoodPairs(p.keys, x, z)]
               /\ nv_ctr' = [nv_ctr EXCEPT ![r] =
                     [failure |-> @.failure + Failures(p.keys, z),
                      found |-> @.found + Len(p.keys) - Failures(p.keys, z)]]
        /\ nv_chan' = [nv_chan EXCEPT ![<<s, r>>] = Tail(@)]
        /\ UNCHANGED <<nv_par, nv_phase, nv_x, nv_dict, nv_hung, nv_ret,
                       nv_arr, nvOther>>

\* lines 130-146, phase 1: dict.probe(z, keys) never returns
NvProbeHang ==
    \E s \in Senders, r \in Receivers :
        /\ nv_phase = 1
        /\ ~nv_hung[r]
        /\ nv_chan[<<s, r>>] # <<>>
        /\ ProbeKeys(nv_dict[r], Head(nv_chan[<<s, r>>])[2]).hang
        /\ nv_hung' = [nv_hung EXCEPT ![r] = TRUE]
        /\ nv_chan' = [nv_chan EXCEPT ![<<s, r>>] = Tail(@)]
        /\ UNCHANGED <<nv_par, nv_phase, nv_x, nv_dict, nv_result, nv_ret,
                       nv_ctr, nv_arr, nvOther>>

\* line 113: the sender's loop has ended, sendbuf.flush(), and the sender
\* goes to MPI_Barrier
NvFlush ==
    \E s \in Senders :
        /\ nv_phase < 2
        /\ nv_x[s] = hi(s)
        /\ ~nv_arr.s[s]
        /\ nv_arr' = [nv_arr EXCEPT !.s[s] = TRUE]
        /\ UNCHANGED <<nv_par, nv_phase, nv_x, nv_chan, nv_dict, nv_result,
                       nv_hung, nv_ret, nv_ctr, nvOther>>

\* recvbuf.complete(): every sender has flushed and all it sent to receiver r
\* has been handled
RecvComplete(r) ==
    /\ \A s \in Senders : nv_arr.s[s] /\ nv_chan[<<s, r>>] = <<>>
    /\ ~nv_hung[r]

\* line 125: the receiver's loop ends, and the receiver goes to MPI_Barrier
NvComplete ==
    \E r \in Receivers :
        /\ nv_phase < 2
        /\ ~nv_arr.r[r]
        /\ RecvComplete(r)
        /\ nv_arr' = [nv_arr EXCEPT !.r[r] = TRUE]
        /\ UNCHANGED <<nv_par, nv_phase, nv_x, nv_chan, nv_dict, nv_result,
                       nv_hung, nv_ret, nv_ctr, nvOther>>

\* every process is at MPI_Barrier
PhaseComplete ==
    /\ \A s \in Senders : nv_arr.s[s]
    /\ \A r \in Receivers : nv_arr.r[r]

\* mutant: the barrier lets the processes go when the senders have arrived
NvBarrier_early ==
    /\ nv_phase = 0
    /\ \A s \in Senders : nv_arr.s[s]
    /\ nv_phase' = 1
    /\ nv_x' = [s \in Senders |-> lo(s)]
    /\ nv_ctr' = [r \in Receivers |-> [failure |-> 0, found |-> 0]]
    /\ nv_arr' = NoneArrived
    /\ UNCHANGED <<nv_par, nv_chan, nv_dict, nv_result, nv_hung, nv_ret,
                   nvOther>>

\* line 177: MPI_Barrier at the end of phase 0
NvBarrier ==
    /\ nv_phase = 0
    /\ PhaseComplete
    /\ nv_phase' = 1
    /\ nv_x' = [s \in Senders |-> lo(s)]
    /\ nv_ctr' = [r \in Receivers |-> [failure |-> 0, found |-> 0]]
    /\ nv_arr' = NoneArrived
    /\ UNCHANGED <<nv_par, nv_chan, nv_dict, nv_result, nv_hung, nv_ret,
                   nvOther>>

\* the results of receivers 0..r, in this order
RECURSIVE Gathered(_)
Gathered(r) == IF r < 0 THEN <<>> ELSE Gathered(r - 1) \o nv_result[r]

\* lines 177-207: MPI_Barrier at the end of phase 1, the results of all
\* processes are gathered and returned
NvReturn ==
    /\ nv_phase = 1
    /\ PhaseComplete
    /\ nv_phase' = 2
    /\ nv_ret' = Gathered(nv_par.n_recv - 1)
    /\ UNCHANGED <<nv_par, nv_x, nv_chan, nv_dict, nv_result, nv_hung,
                   nv_ctr, nv_arr, nvOther>>

NvNext ==
    \/ NvSend
    \/ NvFlush
    \/ NvComplete
    \/ NvInsert
    \/ NvInsertHang
    \/ NvProbe
    \/ NvProbeHang
    \/ NvBarrier
    \/ NvReturn

SpecNaive == NvInit /\ [][NvNext]_vars

\* C20: naive_mpi_claw_search returns every pair (x0, x1) with x0, x1 < 2^n,
\* f(x0) = g(x1) and is_good_pair(x0, x1), for every f and g, any number of
\* senders and receivers and any order of arrival.
C20_AllClaws ==
    nv_phase = 2 =>
        \A x0, x1 \in NvDom :
            (nv_par.f[x0] = nv_par.g[x1] /\ <<x0, x1>> \in nv_par.good) =>
                \E i \in 1..Len(nv_ret) : nv_ret[i] = <<x0, x1>>

\* every pair in a receiver's result is a claw the user accepts
ResultsGood ==
    \A r \in Receivers : \A i \in 1..Len(nv_result[r]) :
        LET y == nv_result[r][i][1]
            x == nv_result[r][i][2]
        IN  /\ nv_par.f[y] = nv_par.g[x]
            /\ <<y, x>> \in nv_par.good

\* the step in which receiver r handles the pair (x, z) at the head of the
\* channel from sender s in phase 1 and probe returns
ProbeStep(s, r) ==
    /\ nv_phase = 1
    /\ nv_chan[<<s, r>>] # <<>>
    /\ nv_chan'[<<s, r>>] = Tail(nv_chan[<<s, r>>])
    /\ ~nv_hung'[r]

\* of the keys probed, the false positives are counted as failures and not
\* reported, and every other key is counted as found and reported if good,
\* whether it comes before or after a false positive
ProbeAccounting(s, r) ==
    LET x == Head(nv_chan[<<s, r>>])[1]
        z == Head(nv_chan[<<s, r>>])[2]
        keys == ProbeKeys(nv_dict[r], z).keys
        hits == {i \in 1..Len(keys) : nv_par.f[keys[i]] = z}
        good == {i \in hits : <<keys[i], x>> \in nv_par.good}
        new == SubSeq(nv_result'[r], Len(nv_result[r]) + 1, Len(nv_result'[r]))
    IN  /\ nv_ctr'[r].failure = nv_ctr[r].failure + Len(keys) - Cardinality(hits)
        /\ nv_ctr'[r].found = nv_ctr[r].found + Cardinality(hits)
        /\ SubSeq(nv_result'[r], 1, Len(nv_result[r])) = nv_result[r]
        /\ Len(new) = Cardinality(good)
        /\ {new[i] : i \in 1..Len(new)} = {<<keys[i], x>> : i \in good}

\* C21: every pair (y, x) a receiver adds to its result has f(y) = g(x) and
\* is_good_pair(y, x); a probe hit with f(y) # z is counted as a collision
\* failure, is not reported, and the hits after it are still processed.
C21_ReceiverResults ==
    /\ []ResultsGood
    /\ [][\A s \in Senders, r \in Receivers :
             ProbeStep(s, r) => ProbeAccounting(s, r)]_vars

\* one probe has returned a false positive first and a claw after it: the
\* first is counted as a failure, the second is in the result
C21_Witness ==
    /\ nv_par.n_recv = 1
    /\ nv_par.f[0] = NvN - 1
    /\ nv_par.f[NvN - 1] = 0
    /\ nv_par.g[0] = 0
    /\ nv_ctr[0] = [failure |-> 1, found |-> 1]
    /\ nv_result[0] = << <<NvN - 1, 0>> >>
    /\ nv_dict[0][1] = [k |-> 0, v |-> NvN - 2]

\* C22: when the sequential engine has resolved a dictionary candidate into
\* an accepted collision (the golden predicate taken to hold for every
\* accepted pair), its next step is the return of that pair: it walks no
\* further chain and starts no other version.
C22_ReturnAtOnce ==
    [][(pc = "treat" /\ is_potential_coll) =>
          /\ pc' = "returned"
          /\ result' = collisions_container'[Len(collisions_container')]]_vars

\* C23: within one version the sequential engine makes exactly 10 * n_slots
\* chain attempts, one unit of the budget per drawn seed whether the chain
\* reaches a distinguished point or is abandoned: the budget used is the
\* number of seeds drawn, and the version ends when 10 * n_slots seeds have
\* been drawn.
C23_AttemptBudget ==
    /\ (pc = "for" /\ ~is_collision_found) => n_dist_points = h_attempts
    /\ (pc = "while" /\ n_dist_points > 0) => h_attempts = 10 * n_slots


\* a dictionary entry or popped value (seed, len): the chain of len steps
\* from seed under the current embedding ends at its first distinguished point
ChainOfVersion(seed, len) ==
    /\ len >= 1
    /\ Distinguished(IterN(seed, len), SeqDifficulty)
    /\ \A j \in 1..(len - 1) : ~Distinguished(IterN(seed, j), SeqDifficulty)

DictOfVersion ==
    \A s \in 0..(n_slots - 1) :
        dict[s] # EmptySlot
        => /\ ChainOfVersion(dict[s].seed, dict[s].len)
           /\ dict[s].key = hash(IterN(dict[s].seed, dict[s].len)) % KeyMod

\* a dictionary hit: the new chain and the chain popped from the dictionary
HitOfVersion ==
    pc = "walk"
    => /\ ChainOfVersion(pre_inp0, chain_length0)
       /\ ChainOfVersion(h_inp1, chain_length1)
       /\ hash(IterN(pre_inp0, chain_length0)) % KeyMod
            = hash(IterN(h_inp1, chain_length1)) % KeyMod

VersionStart == pc = "while" /\ pc' = "for"

\* C24: a version begins with update_embedding and an empty dictionary, before
\* any chain of the version is drawn; the embedding changes nowhere else;
\* every dictionary entry, and both chains of every dictionary hit, are chains
\* of the current version; chain_length is 0 when a chain's walk begins, so
\* the stored length counts that chain's steps alone.
C24_VersionIsolation ==
    /\ []((pc = "for" /\ h_attempts = 0) => dict = flush)
    /\ [](pc = "gdp" => cl_before = 0)
    /\ []DictOfVersion
    /\ []HitOfVersion
    /\ [][/\ VersionStart => (dict' = flush /\ h_attempts' = 0)
          /\ ~VersionStart => Pb' = Pb]_vars

C24_Witness ==
    /\ pc = "walk"
    /\ h_version = 2
    /\ Pb.emb # 0
    /\ chain_length0 # chain_length1

\* every triple in a send buffer was pushed in the sender's current version,
\* for a start of this version, with the length returned with its end, into
\* the buffer of the receiver its end is routed to
BufferOfVersion ==
    \A r \in Ranks : \A t \in DOMAIN sd_buf[r] : \A c \in 1..Len(sd_buf[r][t]) :
        LET trip == sd_buf[r][t][c]
        IN  /\ trip.ep = sd_ep[r]
            /\ \E a \in 1..Len(sd_starts[r]) : sd_starts[r][a] = trip.start
            /\ trip.len = SdLen(trip.end)
            /\ Routes[trip.end][sd_par.n_recv] = t

\* nothing is buffered when the sender is at the reductions or at a broadcast
FlushedAtEpochEnd ==
    \A r \in Ranks :
        sd_pc[r] \in {"reduce", "bcast", "returned"} => Buffered(r) = 0

\* every triple pushed in the epoch is in a buffer or has been transmitted
NoneLost ==
    \A r \in Ranks : sd_routed[r] = sd_sent[r] + Buffered(r)

\* a step in which local_rank r pushes a triple
PushStep(r) == sd_routed'[r] = sd_routed[r] + 1

\* the triple pushed is (j & mask, end, len) of the chain just walked, and it
\* is the last one of its receiver's buffer or was transmitted with the buffer
PushedTriple(r) ==
    LET trip == [ep |-> sd_ep[r], start |-> ChainStart(sd_j[r]),
                 end |-> sd_push'[r].end, len |-> SdLen(sd_push'[r].end)]
        t == sd_push'[r].target
        old == sd_buf[r][t]
        new == sd_buf'[r][t]
    IN  \/ new = Append(old, trip) /\ sd_sent'[r] = sd_sent[r]
        \/ new = <<>> /\ sd_sent'[r] = sd_sent[r] + Len(old) + 1

\* a step in which sendbuf of local_rank r transmits
SendStep(r) == sd_sent'[r] > sd_sent[r]

\* C25: every triple a sender pushes during version i is (start, end, len) of
\* the chain walked from start = j & mask in version i; it is transmitted
\* within the epoch of version i, before the sender enters the reductions
\* that end the epoch; none is transmitted in a later version and none is
\* lost.
C25_TriplesOfVersion ==
    /\ []BufferOfVersion
    /\ []FlushedAtEpochEnd
    /\ []NoneLost
    /\ [][\A r \in Ranks :
             /\ PushStep(r) => PushedTriple(r)
             /\ SendStep(r) =>
                   /\ sd_ep'[r] = sd_ep[r]
                   /\ sd_pc[r] \in {"chain", "assign"}]_vars

C25_Witness ==
    \E r \in Ranks :
        /\ sd_pc[r] = "reduce"
        /\ sd_ep[r] = 2
        /\ sd_routed[r] = 1
        /\ sd_sent[r] = 1
        /\ \E r2 \in Ranks : sd_sent[r2] = BufCap

\* C26: a CALLHOME is followed by exactly one assignment receive before the
\* sender does anything else; n_dp is 0 after every CALLHOME; the counts
\* reported by the CALLHOMEs of an epoch and n_dp add up to the triples routed
\* in the epoch, and at the exit of the epoch the reported counts alone do.
C26_CallHome ==
    /\ \A r \in Ranks :
          /\ sd_home[r].calls - sd_home[r].assigns
                = (IF sd_pc[r] = "assign" THEN 1 ELSE 0)
          /\ sd_pc[r] = "assign" => sd_ndp[r] = 0
          /\ sd_routed[r] = sd_home[r].reported + sd_ndp[r]
          /\ sd_pc[r] = "reduce" =>
                /\ sd_home[r].reported = sd_routed[r]
                /\ sd_assign[r] = "NEW_VERSION"

C26_Witness ==
    \E r \in Ranks :
        /\ sd_pc[r] = "reduce"
        /\ sd_home[r].calls = 2
        /\ sd_home[r].reported = 2

\* the x of [0, 2^n) whose f(x) is routed to receiver r
RoutedTo(r) == {x \in NvDom : NvRoutes[nv_par.f[x]][nv_par.n_recv] = r}

\* receiver r has inserted every pair of phase 0 that is routed to it
AllInserted(r) ==
    \A x \in RoutedTo(r) :
        \E h \in 1..Len(nv_dict[r]) :
            nv_dict[r][h] = [k |-> StoredKey(nv_par.f[x]), v |-> x]

\* a step in which receiver r handles a pair in phase 1
HandleInPhase1(r) ==
    /\ nv_phase = 1
    /\ \E s \in Senders : /\ nv_chan[<<s, r>>] # <<>>
                          /\ nv_chan'[<<s, r>>] = Tail(nv_chan[<<s, r>>])

\* C27: a receiver probes only when it has inserted every pair of phase 0
\* routed to it; no dictionary is written after the probes have begun; and
\* phase 1 begins only when every sender has sent and flushed its whole range
\* and every receiver has handled all of it.
C27_PhaseOrder ==
    /\ [](nv_phase >= 1 => \A r \in Receivers : AllInserted(r))
    /\ [][/\ \A r \in Receivers : HandleInPhase1(r) => AllInserted(r)
          /\ nv_dict' # nv_dict => (nv_phase = 0 /\ nv_phase' = 0)
          /\ nv_result' # nv_result => nv_phase = 1
          /\ nv_phase' >= nv_phase
          /\ (nv_phase = 0 /\ nv_phase' = 1) =>
                /\ \A sd \in Senders : nv_x[sd] = hi(sd)
                /\ \A c \in Senders \X Receivers : nv_chan[c] = <<>>
                /\ \A r \in Receivers : AllInserted(r)]_vars

C27_Witness ==
    /\ nv_phase = 1
    /\ nv_par.n_send = 2
    /\ \E r \in Receivers : nv_ctr[r].found >= 1 /\ Cardinality(RoutedTo(r)) >= 2
    /\ \E sd \in Senders : nv_x[sd] < hi(sd)

\* the dictionary of receiver r when the pairs (x, f(x)) of x < n routed to
\* it arrive in the order of x
RECURSIVE FillInOrder(_, _)
FillInOrder(r, n) ==
    IF n = 0 THEN CompactDict(DictSlots(nv_par.n_recv))
    ELSE LET T == FillInOrder(r, n - 1)
             z == nv_par.f[n - 1]
             h == InsertSlot(T, HomeSlot(z, Len(T)), 0)
         IN  IF (n - 1) \notin RoutedTo(r) \/ h < 0 THEN T
             ELSE [T EXCEPT ![h + 1] = [k |-> StoredKey(z), v |-> n - 1]]

\* the pairs the search returns when all batches arrive in the order of x
PairsInOrder ==
    UNION { LET z == nv_par.g[x]
                T == FillInOrder(NvRoutes[z][nv_par.n_recv], NvN)
                gp == GoodPairs(ProbeKeys(T, z).keys, x, z)
            IN  {gp[i] : i \in 1..Len(gp)} : x \in NvDom }

\* C28: the set of pairs the naive search returns is the same for every order
\* in which the batches of different senders arrive at a receiver: it is the
\* set returned when they arrive in the order of x.
C28_OrderIndependent ==
    nv_phase = 2 => {nv_ret[i] : i \in 1..Len(nv_ret)} = PairsInOrder

\* C30: every receiver's dictionary has an empty slot at all times: the
\* pairs routed to a receiver are fewer than its n_slots, and no insert or
\* probe runs into a full table.
C30_EmptySlot ==
    \A r \in Receivers :
        /\ \E h \in 1..Len(nv_dict[r]) : nv_dict[r][h].k = Sentinel
        /\ Cardinality(RoutedTo(r)) < DictSlots(nv_par.n_recv)
        /\ ~nv_hung[r]

(***************************************************************************)
(* The senders' ranges of naive_mpi_claw_search in u64 arithmetic: lines   *)
(* 86 and 101-102 of include/mpi_naive_isend.hpp, for every width n for    *)
(* which 1ull << n is defined.                                             *)
(***************************************************************************)
\* up to MaxPartSend senders
MaxPartSend == 3

\* the u64 quotient x / d of the bits p, p - 1, ..., 0 of x, for a number
\* 0 < d < 2^30 and the remainder rem of the bits above p
RECURSIVE DivStep(_, _, _, _)
DivStep(x, d, p, rem) ==
    IF p < 0 THEN {}
    ELSE LET r2 == 2 * rem + (IF p \in x THEN 1 ELSE 0)
         IN  IF r2 >= d THEN {p} \cup DivStep(x, d, p - 1, r2 - d)
             ELSE DivStep(x, d, p - 1, r2)

Div64(x, d) == DivStep(x, d, U64Bits - 1, 0)

\* x < y for two u64
Less64(x, y) ==
    \E p \in y \ x : \A q \in (p + 1)..(U64Bits - 1) : (q \in x) <=> (q \in y)

\* u64 N = 1ull << Pb.n
N64 == {pt_par.n}

\* u64 lo = params.local_rank * N / params.n_send
lo64(rank) == Div64(Mul64(NatBits(rank), N64), pt_par.n_send)

\* u64 hi = (params.local_rank + 1) * N / params.n_send
hi64(rank) == Div64(Mul64(NatBits(rank + 1), N64), pt_par.n_send)

PtInit ==
    /\ \E n \in 1..(U64Bits - 1), ns \in 1..MaxPartSend :
          pt_par = [n |-> n, n_send |-> ns]
    /\ pt_rank = 0
    /\ pt_lo = <<>>
    /\ pt_hi = <<>>
    /\ WrapRest
    /\ DPRest
    /\ SeqRest
    /\ HistRest
    /\ CDRest
    /\ SdRest
    /\ NvRest
    /\ KbRest

\* lines 101-102 in the sender of the next local_rank
PtRange ==
    /\ pt_rank < pt_par.n_send
    /\ pt_lo' = Append(pt_lo, lo64(pt_rank))
    /\ pt_hi' = Append(pt_hi, hi64(pt_rank))
    /\ pt_rank' = pt_rank + 1
    /\ UNCHANGED <<pt_par, wrapVars, dpVars, seqVars, histVars, cdVars, sdVars,
                   nvVars, kbVars>>

PtNext == PtRange

SpecPart == PtInit /\ [][PtNext]_vars

\* C29: the ranges [lo, hi) of the senders 0..n_send-1 partition [0, 2^n):
\* the first begins at 0, each begins where the one before ends, none ends
\* before it begins, and the last ends at N = 2^n; for every n_send >= 1,
\* whether or not it divides N.
C29_Partition ==
    pt_rank = pt_par.n_send =>
        /\ pt_lo[1] = {}
        /\ \A s \in 1..(pt_par.n_send - 1) : pt_hi[s] = pt_lo[s + 1]
        /\ \A s \in 1..pt_par.n_send : pt_lo[s] = pt_hi[s] \/ Less64(pt_lo[s], pt_hi[s])
        /\ pt_hi[pt_par.n_send] = N64

(***************************************************************************)
(* SpecKeys: one receiver of naive_mpi_claw_search with its buffer         *)
(* u64 keys[3 * Pb.n], for the widths at which 2^n exceeds 3 * n.  There   *)
(* is one sender and one receiver, so the pairs arrive in the order of x.  *)
(***************************************************************************)
\* Pb.n is 1..KbBits
KbBits == 4

\* the user's f and g on n bits: zero, one, identity, low bit
KbFam(n) ==
    { [x \in 0..(2^n - 1) |-> 0],
      [x \in 0..(2^n - 1) |-> 1],
      [x \in 0..(2^n - 1) |-> x],
      [x \in 0..(2^n - 1) |-> x % 2] }

\* (1.25 * N) / n_recv with n_recv = 1, converted to u64
KbSlots(n) == (5 * 2^n) \div 4

\* u64 keys[3 * Pb.n]
KeysLen == 3 * kb_par.n

\* how many values dict.probe(z, keys) writes, counted up to cap + 1; a loop
\* over matching slots that never ends writes more than any cap
ProbeWrites(T, z, cap) ==
    LET p == ProbeKeys(T, z)
    IN  IF p.hang /\ p.keys # <<>> THEN cap + 1
        ELSE IF Len(p.keys) > cap THEN cap + 1
        ELSE Len(p.keys)

KbInit ==
    /\ \E n \in 1..KbBits : \E f \in KbFam(n), g \in KbFam(n) :
          /\ kb_par = [n |-> n, f |-> f, g |-> g]
          /\ kb_dict = CompactDict(KbSlots(n))
    /\ kb_phase = 0
    /\ kb_x = 0
    /\ kb_nkeys = 0
    /\ kb_stop = "none"
    /\ WrapRest
    /\ DPRest
    /\ SeqRest
    /\ HistRest
    /\ CDRest
    /\ SdRest
    /\ NvRest
    /\ PtRest

kbOther == <<wrapVars, dpVars, seqVars, histVars, cdVars, sdVars, nvVars, ptVars>>

\* lines 103-108 and 139-142, phase 0: dict.insert(f(x), x)
KbInsert ==
    /\ kb_phase = 0
    /\ kb_x < 2^kb_par.n
    /\ LET z == kb_par.f[kb_x]
           h == InsertSlot(kb_dict, HomeSlot(z, Len(kb_dict)), 0)
       IN  /\ h >= 0
           /\ kb_dict' = [kb_dict EXCEPT ![h + 1] = [k |-> StoredKey(z), v |-> kb_x]]
    /\ kb_x' = kb_x + 1
    /\ UNCHANGED <<kb_par, kb_phase, kb_nkeys, kb_stop, kbOther>>

\* line 90: the end of phase 0 and of phase 1
KbPhase ==
    /\ kb_phase < 2
    /\ kb_stop = "none"
    /\ kb_x = 2^kb_par.n
    /\ kb_phase' = kb_phase + 1
    /\ kb_x' = 0
    /\ UNCHANGED <<kb_par, kb_dict, kb_nkeys, kb_stop, kbOther>>

\* lines 143-147, phase 1: int nkeys = dict.probe(g(x), keys), nkeys fits
KbProbe ==
    /\ kb_phase = 1
    /\ kb_stop = "none"
    /\ kb_x < 2^kb_par.n
    /\ LET z == kb_par.g[kb_x]
       IN  /\ ~ProbeKeys(kb_dict, z).hang
           /\ ProbeWrites(kb_dict, z, KeysLen) <= KeysLen
           /\ kb_nkeys' = ProbeWrites(kb_dict, z, KeysLen)
    /\ kb_x' = kb_x + 1
    /\ UNCHANGED <<kb_par, kb_phase, kb_dict, kb_stop, kbOther>>

\* lines 65-71 called from line 146: probe writes keys[3 * Pb.n] and beyond;
\* what the receiver does after that is undefined
KbProbeOverflow ==
    /\ kb_phase = 1
    /\ kb_stop = "none"
    /\ kb_x < 2^kb_par.n
    /\ ProbeWrites(kb_dict, kb_par.g[kb_x], KeysLen) > KeysLen
    /\ kb_nkeys' = KeysLen + 1
    /\ kb_stop' = "overflow"
    /\ UNCHANGED <<kb_par, kb_phase, kb_x, kb_dict, kbOther>>

\* lines 54-62 called from line 146: the table is full without the key, the
\* first loop of probe never ends and writes nothing
KbProbeHang ==
    /\ kb_phase = 1
    /\ kb_stop = "none"
    /\ kb_x < 2^kb_par.n
    /\ LET p == ProbeKeys(kb_dict, kb_par.g[kb_x])
       IN  p.hang /\ p.keys = <<>>
    /\ kb_nkeys' = 0
    /\ kb_stop' = "hang"
    /\ UNCHANGED <<kb_par, kb_phase, kb_x, kb_dict, kbOther>>

KbNext ==
    \/ KbInsert
    \/ KbPhase
    \/ KbProbe
    \/ KbProbeOverflow
    \/ KbProbeHang

SpecKeys == KbInit /\ [][KbNext]_vars

\* C31: in phase 1 the number of values a probe writes to keys is at most
\* 3 * n, the length of the buffer, for every f and every dictionary that
\* phase 0 can leave.
C31_KeysFit == kb_nkeys <= KeysLen

(***************************************************************************)
(* Properties of the wrappers and the front ends, continued (SpecWrap)     *)
(***************************************************************************)
\* the domain check of the quality control: (x & ((1 << pb.n) - 1)) == x
DomainCheck(x) == And(x, IntMask(pb.n)) = x

\* the values the check is looked at on: the n-bit values explored, 2^n and
\* 2^63
CheckVals == Vals(pb.n) \cup {{p} : p \in {pb.n, U64Bits - 1} \cap (0..(U64Bits - 1))}

\* C32: when claw_search reaches its quality control, the domain check
\* (x & ((1 << n) - 1)) == x accepts exactly the u64 values x < 2^n, for
\* every width n of the problem.
C32_DomainCheck ==
    (ret.op = "claw_search" /\ IsClaw)
    => \A x \in CheckVals : DomainCheck(x) <=> Below(x, pb.n)

\* a step in which the wrapper or a front end is called
Called(op) == ret.op = "init" /\ ret'.op = op

\* C33: a call of mixf adds one to n_eval; mix, choose, swap, mix_good_pair
\* and the front ends leave it as it is (the evaluations of the user's
\* predicate and of the assertions are not counted); so whenever it is read
\* after the sender's reset at the start of an epoch, n_eval is the number of
\* mixf calls made since that reset.
C33_EvalCount ==
    /\ [](h_mixf >= 0 => n_eval = h_mixf)
    /\ [][/\ Called("mixf") => n_eval' = n_eval + 1
          /\ (\E op \in {"mix", "choose", "swap", "mix_good_pair",
                         "claw_search", "collision_search"} : Called(op))
                => n_eval' = n_eval]_vars

C33_Witness ==
    /\ h_mixf = MaxEval
    /\ n_eval = MaxEval
    /\ ret.op = "mix_good_pair"
    /\ ret.res

\* the m-bit x built from y and the branch c: y above the m - n discarded
\* bits, exclusive-or the kept bits of i, and c in bit 0
Preimage(i, y, c) ==
    LET low == pb.m - pb.n
    IN  Xor({p + low : p \in y}, {p \in i : p >= low})
           \cup (IF c THEN {0} ELSE {})

\* the values tried for x: the m-bit values explored and the built one
Candidates(i, y, c) == Vals(pb.m) \cup {Preimage(i, y, c)}

\* x is an m-bit value that mix sends to y and choose to the branch c
Reaches(i, x, y, c) ==
    /\ Below(x, pb.m)
    /\ Larger_mix(i, x) = y
    /\ Larger_choose(i, x) = c

\* the claws of the problem among the values explored
Claws == {p \in Vals(pb.n) \X Vals(pb.n) : pb.f[p[1]] = pb.g[p[2]]}

\* C34: larger-range claw wrapper (n < m), every m-bit version i: for every
\* y < 2^n and each of the two branches there is an m-bit x with
\* mix(i, x) = y and choose(i, x) the branch; and for every claw
\* f(x0) = g(x1) there are m-bit a, b with mixf(i, a) = mixf(i, b),
\* choose(i, a) # choose(i, b), from which swap and mix give back (x0, x1).
C34_EveryPairReachable ==
    (wrapper = "larger" /\ ret.op = "mix")
    => /\ \A y \in Vals(pb.n), c \in BOOLEAN :
             \E x \in Candidates(ret.i, y, c) : Reaches(ret.i, x, y, c)
       /\ \A p \in Claws :
             \E a \in Candidates(ret.i, p[1], TRUE),
                b \in Candidates(ret.i, p[2], FALSE) :
                /\ Reaches(ret.i, a, p[1], TRUE)
                /\ Reaches(ret.i, b, p[2], FALSE)
                /\ Larger_mixf(ret.i, a).ok
                /\ Larger_mixf(ret.i, b).ok
                /\ Larger_mixf(ret.i, a).val = Larger_mixf(ret.i, b).val
                /\ Larger_swap(ret.i, b, a).failed = "none"
                /\ Larger_mix(ret.i, Larger_swap(ret.i, b, a).x0) = p[1]
                /\ Larger_mix(ret.i, Larger_swap(ret.i, b, a).x1) = p[2]

C34_Witness ==
    /\ wrapper = "larger"
    /\ ret.op = "mix"
    /\ pb.m <= SmallBits
    /\ ret.i = Pos(pb.m)
    /\ \E p \in Claws : p[1] # p[2]
=============================================================================
